---- MODULE Spec2Model ----
(***************************************************************************)
(* State-machine model of the CRM recommendation platform:                 *)
(*   - the recommendation engine (core/recommendation): scenario matching, *)
(*     scoring, ranking, diversification and the persistence of a run;     *)
(*   - the audit service (core/audit/service.py): approval life cycle;     *)
(*   - the ingestion service (core/ingestion): read, validate, load;       *)
(*   - the transform pipeline (core/transform): deduplication, product     *)
(*     resolution, the loaders of the clean tables and the orchestrator;   *)
(*   - the quality and gating services (core/audit/service.py);            *)
(*   - the batch entry point of the engine, the sales-line validator on    *)
(*     its own, the status of a source connector (connectors) and the      *)
(*     retraining triggers of the outcomes service (core/outcomes).        *)
(* Scores are kept as integers: component scores on the 0..100 scale,      *)
(* popularity in tenths (0.8 is 8), final_score in tenths of a point       *)
(* (78.5 is 785), so that the weighted sum of scorer.py is exact.          *)
(***************************************************************************)
EXTENDS Integers, Sequences, FiniteSets, TLC

(***************************************************************************)
(* Bounds of the model                                                     *)
(***************************************************************************)
MaxRuns == 1        \* generate_recommendations calls per behaviour
MaxK == 3           \* largest max_recommendations argument tried
MaxLines == 1       \* order lines of the customer with a purchase history
MaxClock == 3       \* readings of datetime.utcnow() by the audit service per behaviour
MaxFileRows == 2    \* data rows of an ingested CSV file
MaxIngests == 2     \* ingest_* calls per behaviour
MaxRawCustomers == 3    \* rows of raw_customers the transform pipeline starts from
MaxOrderLines == 2      \* lines handed to load_order_lines
MaxTransforms == 2      \* calls into core/transform per behaviour
MaxRecos == 3           \* RecommendationItem rows stored
MaxQualityCalls == 2    \* compute_quality_metrics calls per behaviour
MaxBatch == 2           \* recommendations handed to check_batch
MaxGatingCalls == 2     \* GatingService calls per behaviour

(***************************************************************************)
(* Program constants                                                       *)
(***************************************************************************)
SilenceDays == 30       \* engine.py:125  get_silence_window(..., days=30)
RebuyDays == 90         \* scenario_matcher.py:62
WinbackDays == 365      \* scenario_matcher.py:34
UpsellSpent == 500      \* scenario_matcher.py:36
NurtureMaxOrders == 3   \* scenario_matcher.py:255
SqlLimit == 3           \* LIMIT 3 of every candidate query
RebuyMinPop == 5        \* scenario_matcher.py:63   popularity_score >= 0.5
CrossSellMinPop == 4    \* scenario_matcher.py:113
UpsellMinPop == 6       \* scenario_matcher.py:169
WinbackMinPop == 7      \* scenario_matcher.py:218
NurtureMinPop == 3      \* scenario_matcher.py:262
NeutralScore == 50      \* scorer.py:99
FamilyMatchBonus == 25  \* scorer.py:103
FamilyOtherBonus == 10  \* scorer.py:105
WeightAffinity == 4     \* scorer.py:49  (0.40, in tenths)
WeightPopularity == 3   \* scorer.py:50
WeightProfit == 2       \* scorer.py:51
WeightBase == 1         \* scorer.py:52
WeightCoverage == 4     \* audit/service.py:207  (0.4, in tenths)
WeightDiversity == 3    \* audit/service.py:208
WeightAccuracy == 3     \* audit/service.py:209
ExcellentScore == 90    \* audit/service.py:212  (0.90, in hundredths)
GoodScore == 75         \* audit/service.py:214
AcceptableScore == 60   \* audit/service.py:216
DiversityTarget == 7    \* audit/service.py:261  (0.7, in tenths)
ScoreScale == 100       \* audit/service.py:272
StrictMinScore == 80    \* audit/service.py:358
StandardMinScore == 60  \* audit/service.py:364
PermissiveMinScore == 40    \* audit/service.py:370
DefaultMaxScore == 100  \* audit/models.py:96

NULL == "NULL"          \* SQL NULL / Python None

(***************************************************************************)
(* Generic sequence helpers                                                *)
(***************************************************************************)
Min(a, b) == IF a <= b THEN a ELSE b

Range(s) == {s[i] : i \in 1..Len(s)}

Take(s, n) == SubSeq(s, 1, Min(n, Len(s)))

\* all sequences that list every element of the finite set S exactly once
Perms(S) == {s \in [1..Cardinality(S) -> S] : \A x \in S : \E i \in 1..Cardinality(S) : s[i] = x}

(***************************************************************************)
(* The store the engine reads (tests/test_recommendation.py fixture)       *)
(***************************************************************************)
ProductKeys == {"P1", "P2", "P3"}
Families == {"Red", "White", NULL}
Customers == {"C1", "C2"}

VARIABLES
    product,        \* product table: product_key -> [family, is_premium, popularity_score]
    order_line,     \* order_line table: set of [customer_code, product_key, amount_ht, age]
    contact_event,  \* contact_event table: customer_code -> set of contact ages in days
    reco_item,      \* committed rows of reco_item (what any other session reads)
    reco_run,       \* run_ids of the stored reco_run records
    txn,            \* rows inserted by the engine's session and not yet committed
    pc,             \* "idle" | "saving": position of the engine inside a call
    cur,            \* the RecommendationResult being saved
    saveIdx,        \* index of the next item _save_recommendations inserts
    ret,            \* what the last finished generate_recommendations call returned
    runLog,         \* per run_id: slate size and whether a save statement failed
    nextRun         \* number of run_ids minted so far (uuid4 is fresh every call)

recoVars == <<product, order_line, contact_event, reco_item, reco_run, txn, pc, cur, saveIdx, ret, runLog, nextRun>>

(***************************************************************************)
(* The store and the observable results of the audit service               *)
(***************************************************************************)
VARIABLES
    audit_log,      \* audit_log table: audit_id -> row, over the ids that have a row
    auditRet,       \* the last AuditService call: its name, its audit_id, what it returned
    now             \* the reading of datetime.utcnow(), a logical clock

auditVars == <<audit_log, auditRet, now>>

(***************************************************************************)
(* The store and the observable results of the ingestion service           *)
(***************************************************************************)
VARIABLES
    raw_customers,      \* committed rows of raw_customers, in id order
    raw_sales_lines,    \* committed rows of raw_sales_lines, in id order
    ingestion_batches,  \* committed rows of ingestion_batches
    db_status,          \* "clean" | "aborted": the transaction of the service's session
    ingestLog           \* the ingest_* calls made, in order: arguments and how each ended

ingestVars == <<raw_customers, raw_sales_lines, ingestion_batches, db_status, ingestLog>>

(***************************************************************************)
(* The store and the observable results of the transform pipeline          *)
(***************************************************************************)
VARIABLES
    product_alias,      \* product_alias table: set of [label_norm, product_key], label_norm the key
    customer,           \* committed rows of the customer table (their customer_code)
    clean_order_line,   \* order_line rows committed by TransformLoader.load_order_lines, in id order
    transformLog        \* the calls made into core/transform, in order: arguments and what each returned

transformVars == <<product_alias, customer, clean_order_line, transformLog>>

(***************************************************************************)
(* The store and the observable results of the quality and gating services *)
(***************************************************************************)
VARIABLES
    recommendation_item,    \* RecommendationItem rows [run_id, customer_code, product_key, recommendation_score], in id order
    quality_metrics,        \* committed rows of quality_metrics (run_id is the primary key)
    qualityLog,             \* the compute_quality_metrics calls made, in order: arguments and how each ended
    policies,               \* GatingService.policies: name -> GatingPolicy, over the registered names
    gatingLog               \* the GatingService checks made, in order: arguments and what each returned

qualityVars == <<recommendation_item, quality_metrics, qualityLog, policies, gatingLog>>

(***************************************************************************)
(* The observable results of the batch entry point of the engine, the state *)
(* of one source connector, the results of the outcomes service and of the *)
(* sales-line validator called on its own                                  *)
(***************************************************************************)
VARIABLES
    batchLog,       \* the generate_batch_recommendations calls made, in order: arguments, customers processed, results
    connector,      \* the attributes of one connector object: status, last_sync, last_error
    connectorPc,    \* "idle" | "syncing": position of the connector inside sync()
    connectorLog,   \* the test_connection and sync calls that have ended, in order: how each ended
    triggerLog,     \* the check_retraining_triggers calls made, in order: arguments and what each returned
    validationLog   \* the direct SalesLineValidator.validate_batch calls made, in order: rows and what each returned

serviceVars == <<batchLog, connector, connectorPc, connectorLog, triggerLog, validationLog>>

vars == <<recoVars, auditVars, ingestVars, transformVars, qualityVars, serviceVars>>

\* what a call of the recommendation engine, of the audit service and of the
\* ingestion service leaves alone
nonRecoVars == <<auditVars, ingestVars, transformVars, qualityVars, serviceVars>>
nonAuditVars == <<recoVars, ingestVars, transformVars, qualityVars, serviceVars>>
nonIngestVars == <<recoVars, auditVars, transformVars, qualityVars, serviceVars>>

\* what a call into core/transform leaves alone: it reads the raw staging
\* tables and works on the same kind of session
nonTransformVars ==
    <<recoVars, auditVars, raw_customers, raw_sales_lines, ingestion_batches, ingestLog, qualityVars, serviceVars>>

\* what the quality and gating services leave alone: they work on the same
\* kind of session
nonQualityVars ==
    <<recoVars, auditVars, raw_customers, raw_sales_lines, ingestion_batches, ingestLog, transformVars, serviceVars>>

\* what a call of generate_batch_recommendations, of a connector and of the
\* outcomes service leaves alone besides the engine's own state
nonServiceVars == <<auditVars, ingestVars, transformVars, qualityVars>>

\* BaseConnector.__init__ (connectors/base_connector.py:67-80)
NewConnector == [status |-> "configuring", last_sync |-> 0, last_error |-> FALSE]

\* no batch generated, a connector just constructed, no trigger check made
ServicesIdle ==
    /\ batchLog = <<>>
    /\ connector = NewConnector
    /\ connectorPc = "idle"
    /\ connectorLog = <<>>
    /\ triggerLog = <<>>
    /\ validationLog = <<>>


(***************************************************************************)
(* Scenario matcher (core/recommendation/scenario_matcher.py).             *)
(* A query whose row order SQL leaves open (ties of an ORDER BY, ORDER BY  *)
(* RANDOM(), LIMIT without ORDER BY) is the set of lists it may return.    *)
(* popularity_score 0 stands for 0 and for NULL alike: both fail every     *)
(* threshold and both are falsy in scorer.py.                              *)
(***************************************************************************)
Scenarios == {"REBUY", "CROSS_SELL", "UPSELL", "WINBACK", "NURTURE"}

\* insertion order of the dict built by match_scenarios, followed by engine.py:144
ScenarioOrder == <<"REBUY", "CROSS_SELL", "UPSELL", "WINBACK", "NURTURE">>

LinesOf(c) == {l \in order_line : l.customer_code = c}

RECURSIVE SumAmount(_)
SumAmount(L) ==
    IF L = {} THEN 0
    ELSE LET l == CHOOSE x \in L : TRUE IN l.amount_ht + SumAmount(L \ {l})

\* ORDER BY p.popularity_score DESC LIMIT 3 over the product keys in Q
PopularityDescLimit(Q) ==
    {Take(s, SqlLimit) : s \in {t \in Perms(Q) :
        \A i, j \in 1..Len(t) :
            i < j => product[t[i]].popularity_score >= product[t[j]].popularity_score}}

\* LIMIT 3 of a result whose order the query does not fix
AnyOrderLimit(Q) == {Take(s, SqlLimit) : s \in Perms(Q)}

match_rebuy(c) ==
    AnyOrderLimit({p \in ProductKeys :
        /\ product[p].popularity_score >= RebuyMinPop
        /\ \E l \in LinesOf(c) : l.product_key = p /\ l.age >= RebuyDays})

\* SELECT DISTINCT p.family ... LIMIT 2: any two of the purchased families
CustomerFamilies(c) ==
    LET fams == {product[l.product_key].family : l \in LinesOf(c)}
        n == Min(2, Cardinality(fams))
    IN {F \in SUBSET fams : Cardinality(F) = n}

match_cross_sell(c) ==
    UNION {IF F = {} THEN {<<>>}
           ELSE PopularityDescLimit({p \in ProductKeys :
                    /\ product[p].family # NULL
                    /\ product[p].family \notin F
                    /\ product[p].popularity_score >= CrossSellMinPop})
           : F \in CustomerFamilies(c)}

match_upsell(c) ==
    IF SumAmount(LinesOf(c)) < UpsellSpent THEN {<<>>}
    ELSE PopularityDescLimit({p \in ProductKeys :
            product[p].is_premium /\ product[p].popularity_score >= UpsellMinPop})

match_winback(c) ==
    IF LinesOf(c) = {} THEN {<<>>}
    ELSE IF \E l \in LinesOf(c) : l.age < WinbackDays THEN {<<>>}
    ELSE PopularityDescLimit({p \in ProductKeys : product[p].popularity_score >= WinbackMinPop})

match_nurture(c) ==
    IF Cardinality(LinesOf(c)) = 0 \/ Cardinality(LinesOf(c)) > NurtureMaxOrders THEN {<<>>}
    ELSE AnyOrderLimit({p \in ProductKeys :
            product[p].popularity_score >= NurtureMinPop /\ product[p].family # NULL})

\* the possible results of match_scenarios: scenario -> product list, the
\* empty list standing for a dropped (None or empty) bucket
match_scenarios(c) ==
    {[s \in Scenarios |->
        CASE s = "REBUY" -> r
          [] s = "CROSS_SELL" -> x
          [] s = "UPSELL" -> u
          [] s = "WINBACK" -> w
          [] OTHER -> n] :
     r \in match_rebuy(c), x \in match_cross_sell(c), u \in match_upsell(c),
     w \in match_winback(c), n \in match_nurture(c)}


(***************************************************************************)
(* Feature computer (core/recommendation/feature_computer.py)              *)
(***************************************************************************)
\* the mutant: the window closed one day late (days_since <= days)
get_silence_window_inclusive(c, days) ==
    IF contact_event[c] = {} THEN FALSE
    ELSE \E a \in contact_event[c] :
            (\A b \in contact_event[c] : a <= b) /\ a <= days

\* MAX(contact_date) is the contact of least age; in the window iff its age < days
get_silence_window(c, days) ==
    IF contact_event[c] = {} THEN FALSE
    ELSE \E a \in contact_event[c] :
            (\A b \in contact_event[c] : a <= b) /\ a < days

(***************************************************************************)
(* Scorer (core/recommendation/scorer.py)                                  *)
(***************************************************************************)
NoRow == "NOROW"    \* fetchone() returned no row

\* GROUP BY p.family ORDER BY COUNT(*) DESC LIMIT 1: any most-bought family
PreferredFamilies(c) ==
    LET L == LinesOf(c)
        cnt(f) == Cardinality({l \in L : product[l.product_key].family = f})
        fams == {product[l.product_key].family : l \in L}
    IN IF L = {} THEN {NoRow}
       ELSE {f \in fams : \A g \in fams : cnt(f) >= cnt(g)}

compute_affinity_score(pf, p) ==
    LET family == product[p].family
        score == IF pf # NoRow /\ family = pf THEN NeutralScore + FamilyMatchBonus
                 ELSE IF family # NULL THEN NeutralScore + FamilyOtherBonus
                 ELSE NeutralScore
    IN Min(100, score)

\* the mutant: the stored tenths scaled as if they were units
compute_popularity_score_unscaled(p) ==
    IF product[p].popularity_score # 0 THEN product[p].popularity_score * 100 ELSE NeutralScore

compute_popularity_score(p) ==
    IF product[p].popularity_score # 0 THEN product[p].popularity_score * 10 ELSE NeutralScore

compute_profit_score(p) ==
    IF product[p].popularity_score # 0 THEN product[p].popularity_score * 10 ELSE NeutralScore

\* final_score in tenths of a point: 0.40 a + 0.30 p + 0.20 m + 0.10 b
score_recommendation(pf, p, scenario, base) ==
    LET affinity == compute_affinity_score(pf, p)
        popularity == compute_popularity_score(p)
        profit == compute_profit_score(p)
    IN [product_key |-> p, scenario |-> scenario, base_score |-> base,
        affinity_score |-> affinity, popularity_score |-> popularity,
        profit_score |-> profit,
        final_score |-> WeightAffinity * affinity + WeightPopularity * popularity
                        + WeightProfit * profit + WeightBase * base]

\* engine.py:150-157
scenario_base_scores(s) ==
    CASE s = "REBUY" -> 85
      [] s = "CROSS_SELL" -> 75
      [] s = "UPSELL" -> 80
      [] s = "WINBACK" -> 70
      [] OTHER -> 65

RECURSIVE InsertAscending(_, _)
InsertAscending(sorted, x) ==
    IF sorted = <<>> THEN <<x>>
    ELSE IF Head(sorted).final_score <= x.final_score
         THEN <<Head(sorted)>> \o InsertAscending(Tail(sorted), x)
         ELSE <<x>> \o sorted

RECURSIVE InsertDescending(_, _)
\* x goes behind every element whose score is not lower: the sort is stable
InsertDescending(sorted, x) ==
    IF sorted = <<>> THEN <<x>>
    ELSE IF Head(sorted).final_score >= x.final_score
         THEN <<Head(sorted)>> \o InsertDescending(Tail(sorted), x)
         ELSE <<x>> \o sorted

RECURSIVE SortedAscending(_)
SortedAscending(scores) ==
    IF scores = <<>> THEN <<>>
    ELSE InsertAscending(SortedAscending(SubSeq(scores, 1, Len(scores) - 1)), scores[Len(scores)])

RECURSIVE SortedDescending(_)
\* sorted(scores, key=final_score, reverse=True)
SortedDescending(scores) ==
    IF scores = <<>> THEN <<>>
    ELSE InsertDescending(SortedDescending(SubSeq(scores, 1, Len(scores) - 1)), scores[Len(scores)])

\* the mutant: reverse=True forgotten
rank_recommendations_ascending(scores, max_recommendations) ==
    Take(SortedAscending(scores), max_recommendations)

rank_recommendations(scores, max_recommendations) ==
    Take(SortedDescending(scores), max_recommendations)

RECURSIVE DiversifyLoop(_, _, _, _, _)
\* the for loop of diversify_recommendations from index i on
DiversifyLoop(ranked, i, selected, used_families, max_recommendations) ==
    IF i > Len(ranked) THEN selected
    ELSE LET score == ranked[i]
             family == product[score.product_key].family
             first == selected = <<>>
             fresh == ~first /\ family \notin used_families
             fill == ~first /\ ~fresh /\ Len(selected) < max_recommendations
             selected1 == IF first \/ fresh \/ fill THEN Append(selected, score) ELSE selected
             used1 == IF first THEN (IF family # NULL THEN used_families \cup {family}
                                                       ELSE used_families)
                      ELSE IF fresh THEN used_families \cup {family}
                      ELSE used_families
         IN IF Len(selected1) >= max_recommendations THEN selected1
            ELSE DiversifyLoop(ranked, i + 1, selected1, used1, max_recommendations)

diversify_recommendations(ranked_scores, max_recommendations) ==
    IF ranked_scores = <<>> THEN <<>>
    ELSE DiversifyLoop(ranked_scores, 1, <<>>, {}, max_recommendations)


(***************************************************************************)
(* Recommendation engine (core/recommendation/engine.py)                   *)
(***************************************************************************)
RECURSIVE ScoreProducts(_, _, _)
\* the inner loop engine.py:148-165 for one scenario
ScoreProducts(pf, scenario, products) ==
    IF products = <<>> THEN <<>>
    ELSE <<score_recommendation(pf, Head(products), scenario, scenario_base_scores(scenario))>>
         \o ScoreProducts(pf, scenario, Tail(products))

RECURSIVE ScoreScenarios(_, _, _)
\* the outer loop engine.py:144-165 over the scenarios from position i on
ScoreScenarios(pf, scenarios_match, i) ==
    IF i > Len(ScenarioOrder) THEN <<>>
    ELSE ScoreProducts(pf, ScenarioOrder[i], scenarios_match[ScenarioOrder[i]])
         \o ScoreScenarios(pf, scenarios_match, i + 1)

\* engine.py:178-192: rank = position in the diversified list, from 1
MakeItems(diversified) ==
    [i \in 1..Len(diversified) |->
        [rank |-> i, product_key |-> diversified[i].product_key,
         scenario |-> diversified[i].scenario, score |-> diversified[i]]]

\* the row engine.py:224-246 inserts for one item
RecoRow(result, item) ==
    [reco_run_id |-> result.run_id, customer_code |-> result.customer_code,
     rank |-> item.rank, scenario |-> item.scenario, product_key |-> item.product_key,
     score_total |-> item.score.final_score]

\* the mutant: a session that commits every statement (autocommit)
db_execute_insert_autocommit(committed, pending, row) ==
    [committed |-> committed \cup {row}, pending |-> pending]

\* db.execute(INSERT ...) inside the session's open transaction
db_execute_insert(committed, pending, row) ==
    [committed |-> committed, pending |-> pending \cup {row}]

\* db.commit(): the pending rows become visible together
db_commit(committed, pending) ==
    [committed |-> committed \cup pending, pending |-> {}]

\* db.rollback(): the pending rows are dropped
db_rollback(committed, pending) ==
    [committed |-> committed, pending |-> {}]

\* no call has returned yet / no call is running
NoResult ==
    [run_id |-> 0, customer_code |-> NULL, success |-> FALSE, recommendations |-> <<>>,
     max_recommendations |-> 0]

\* the pair (result, success) a call returns, with the limit it was given
Result(run_id, c, success, recommendations, k) ==
    [run_id |-> run_id, customer_code |-> c, success |-> success,
     recommendations |-> recommendations, max_recommendations |-> k]

\* the locals of a call that has reached _save_recommendations: the result,
\* the scored candidates (all_scores, as a set) and the list `ranked`
Frame(result, all_scores, ranked) ==
    [result |-> result, all_scores |-> Range(all_scores), ranked |-> ranked]

NoFrame == Frame(NoResult, <<>>, <<>>)

\* steps 2 and 3 (engine.py:130-165): the lists all_scores the matcher's
\* queries and the scorer can produce for customer c
ScoredCandidates(c) ==
    {ScoreScenarios(pf, scenarios_match, 1) :
        scenarios_match \in match_scenarios(c), pf \in PreferredFamilies(c)}

\* generate_recommendations up to the call of _save_recommendations
\* (engine.py:113-196): steps 1 to 5 and the three early returns;
\* all_scores is one of ScoredCandidates(c)
Generate(c, k, check, all_scores) ==
    /\ pc = "idle"
    /\ nextRun < MaxRuns
    /\ nextRun' = nextRun + 1
    /\ IF check /\ get_silence_window(c, SilenceDays)
       THEN /\ ret' = Result(nextRun + 1, c, FALSE, <<>>, k)
            /\ runLog' = Append(runLog, [size |-> 0, failed |-> FALSE])
            /\ UNCHANGED <<pc, cur, saveIdx>>
       ELSE LET ranked == rank_recommendations(all_scores, k)
                diversified == diversify_recommendations(ranked, k)
            IN IF all_scores = <<>>
               THEN /\ ret' = Result(nextRun + 1, c, FALSE, <<>>, k)
                    /\ runLog' = Append(runLog, [size |-> 0, failed |-> FALSE])
                    /\ UNCHANGED <<pc, cur, saveIdx>>
               ELSE /\ cur' = Frame(Result(nextRun + 1, c, TRUE, MakeItems(diversified), k),
                                    all_scores, ranked)
                    /\ runLog' = Append(runLog, [size |-> Len(diversified), failed |-> FALSE])
                    /\ pc' = "saving"
                    /\ saveIdx' = 1
                    /\ UNCHANGED ret
    /\ UNCHANGED <<product, order_line, contact_event, reco_run, reco_item, txn, nonRecoVars>>

\* one pass of the loop of _save_recommendations (engine.py:215-246), the
\* INSERT accepted by the store
SaveInsert ==
    /\ pc = "saving"
    /\ saveIdx <= Len(cur.result.recommendations)
    /\ LET db == db_execute_insert(reco_item, txn, RecoRow(cur.result, cur.result.recommendations[saveIdx]))
       IN /\ reco_item' = db.committed
          /\ txn' = db.pending
    /\ saveIdx' = saveIdx + 1
    /\ UNCHANGED <<product, order_line, contact_event, reco_run, pc, cur, ret, runLog, nextRun, nonRecoVars>>

\* a statement of the loop raises: except branch engine.py:251-253 rolls back,
\* and generate_recommendations goes on to return (result, True) (engine.py:202)
SaveFail ==
    /\ pc = "saving"
    /\ saveIdx <= Len(cur.result.recommendations)
    /\ LET db == db_rollback(reco_item, txn)
       IN /\ reco_item' = db.committed
          /\ txn' = db.pending
    /\ runLog' = [runLog EXCEPT ![cur.result.run_id].failed = TRUE]
    /\ ret' = cur.result
    /\ pc' = "idle"
    /\ cur' = NoFrame
    /\ saveIdx' = 1
    /\ UNCHANGED <<product, order_line, contact_event, reco_run, nextRun, nonRecoVars>>

\* the loop is over: db.commit() (engine.py:248) and return (result, True)
SaveCommit ==
    /\ pc = "saving"
    /\ saveIdx > Len(cur.result.recommendations)
    /\ LET db == db_commit(reco_item, txn)
       IN /\ reco_item' = db.committed
          /\ txn' = db.pending
    /\ ret' = cur.result
    /\ pc' = "idle"
    /\ cur' = NoFrame
    /\ saveIdx' = 1
    /\ UNCHANGED <<product, order_line, contact_event, reco_run, runLog, nextRun, nonRecoVars>>

\* an optional argument: not given (None), or given with a value
NotGiven == [given |-> FALSE, value |-> {}]
Given(v) == [given |-> TRUE, value |-> v]

\* an ingest_* call and how it ended: its arguments, the exception it raised
\* (NULL: it returned), the report and flag it returned, the errors it had
\* collected
IngestResult(op, batch_id, file, raised, report, success, errors) ==
    [op |-> op, batch_id |-> batch_id, file |-> file,
     valid_customers |-> NotGiven, product_aliases |-> NotGiven, raised |-> raised,
     report |-> report, success |-> success, errors |-> errors]

\* IngestionReport (schemas.py:217-224)
IngestionReport(batch_id, file_type, total_rows, valid_rows, error_rows, errors) ==
    [batch_id |-> batch_id, file_type |-> file_type, total_rows |-> total_rows,
     valid_rows |-> valid_rows, error_rows |-> error_rows, errors |-> errors]

NoReport == IngestionReport(NULL, NULL, 0, 0, 0, <<>>)

NoFile == [readable |-> FALSE, rows |-> <<>>]

\* the ingestion service before any call, on empty staging tables
IngestEmpty ==
    /\ raw_customers = <<>>
    /\ raw_sales_lines = <<>>
    /\ ingestion_batches = {}
    /\ db_status = "clean"
    /\ ingestLog = <<>>

\* TransformPipelineStatus (orchestrator.py:16-27) without its timestamps;
\* errors holds the stage names of the messages appended
TransformPipelineStatus(customers_deduped, customers_loaded, order_lines_loaded, contact_events_loaded, master_profiles_created, errors) ==
    [customers_deduped |-> customers_deduped, customers_loaded |-> customers_loaded,
     order_lines_loaded |-> order_lines_loaded,
     contact_events_loaded |-> contact_events_loaded,
     master_profiles_created |-> master_profiles_created, errors |-> errors]

NoStatus == TransformPipelineStatus(0, 0, 0, 0, 0, <<>>)

\* a call into core/transform and how it ended: the list and the map of
\* deduplicate_batch, the count of load_order_lines, the status and the flag
\* of run_full_pipeline and the steps it entered, the exception raised (NULL:
\* the call returned)
TransformResult(op, batch_id, order_lines, dedup_customers, duplicates_map, loaded, status, success, raised, stages) ==
    [op |-> op, batch_id |-> batch_id, order_lines |-> order_lines,
     dedup_customers |-> dedup_customers, duplicates_map |-> duplicates_map,
     loaded |-> loaded, status |-> status, success |-> success, raised |-> raised,
     stages |-> stages]

\* core/transform before any call, on empty clean tables
TransformEmpty ==
    /\ product_alias = {}
    /\ customer = {}
    /\ clean_order_line = <<>>
    /\ transformLog = <<>>

\* a GatingPolicy (audit/models.py:92-101)
GatingPolicy(name, min_score, max_score, compliance_rules, enabled) ==
    [name |-> name, min_score |-> min_score, max_score |-> max_score,
     compliance_rules |-> compliance_rules, enabled |-> enabled]

\* GatingService._init_default_policies (audit/service.py:354-373)
DefaultPolicies ==
    [name \in {"strict", "standard", "permissive"} |->
        GatingPolicy(name, CASE name = "strict" -> StrictMinScore
                             [] name = "standard" -> StandardMinScore
                             [] name = "permissive" -> PermissiveMinScore,
                     DefaultMaxScore, <<>>, TRUE)]

\* no recommendation stored, no metrics computed, a new GatingService
QualityEmpty ==
    /\ recommendation_item = <<>>
    /\ quality_metrics = {}
    /\ qualityLog = <<>>
    /\ policies = DefaultPolicies
    /\ gatingLog = <<>>

\* the audit service at rest with an empty audit_log table
AuditEmpty ==
    /\ audit_log = <<>>
    /\ auditRet = [op |-> "none", audit_id |-> NULL, result |-> FALSE, raised |-> NULL]
    /\ now = 0

(***************************************************************************)
(* Initial store: three products, one customer with a purchase history    *)
(* (C1) and one without (C2, last contacted 10 days ago).                  *)
(***************************************************************************)
ProductTables ==
    {t \in [ProductKeys -> [family : Families, is_premium : BOOLEAN, popularity_score : {4, 9}]] :
        /\ t["P1"] = [family |-> "Red", is_premium |-> FALSE, popularity_score |-> 9]
        /\ t["P2"].family # NULL /\ ~t["P2"].is_premium
        /\ t["P3"].is_premium /\ t["P3"].popularity_score = 9}

Line(p, amount_ht, age) ==
    [customer_code |-> "C1", product_key |-> p, amount_ht |-> amount_ht, age |-> age]

LineTypes == {Line("P1", 100, 120), Line("P1", 600, 400), Line("P2", 100, 30), Line("P2", 600, 400)}

OrderTables == {L \in SUBSET LineTypes : Cardinality(L) <= MaxLines}

ContactTables ==
    {[c \in Customers |-> IF c = "C1" THEN A ELSE {10}] :
        A \in {{}, {SilenceDays - 1, SilenceDays + 5}, {SilenceDays}}}

RecoInit ==
    /\ product \in ProductTables
    /\ order_line \in OrderTables
    /\ contact_event \in ContactTables
    /\ reco_item = {}
    /\ reco_run = {}
    /\ txn = {}
    /\ pc = "idle"
    /\ cur = NoFrame
    /\ saveIdx = 1
    /\ ret = NoResult
    /\ runLog = <<>>
    /\ nextRun = 0
    /\ customer = Customers
    /\ product_alias = {}
    /\ clean_order_line = <<>>
    /\ transformLog = <<>>
    /\ AuditEmpty
    /\ IngestEmpty
    /\ QualityEmpty
    /\ ServicesIdle

RecoNext ==
    \/ \E c \in Customers : \E all_scores \in ScoredCandidates(c) :
            \E k \in 1..MaxK, check \in BOOLEAN : Generate(c, k, check, all_scores)
    \/ SaveInsert
    \/ SaveFail
    \/ SaveCommit

SpecReco == RecoInit /\ [][RecoNext]_vars

(***************************************************************************)
(* Properties of the recommendation engine, checked under SpecReco         *)
(***************************************************************************)
FamilyOf(score) == product[score.product_key].family

SlateOf(frame) == [i \in 1..Len(frame.result.recommendations) |-> frame.result.recommendations[i].score]

\* C1: for K >= 2, when the scored candidates hold two products of one family
\* and a product of another family, the slate holds at least two distinct
\* families, wherever the other-family candidate stands in the ranking
\* (stated for slates that do not repeat a product).
C1_SlateHasTwoFamilies ==
    (/\ pc = "saving"
     /\ cur.result.max_recommendations >= 2
     /\ \A i, j \in 1..Len(SlateOf(cur)) :
            i # j => SlateOf(cur)[i].product_key # SlateOf(cur)[j].product_key
     /\ \E a, b, d \in cur.all_scores :
            /\ a.product_key # b.product_key
            /\ FamilyOf(a) # NULL /\ FamilyOf(a) = FamilyOf(b)
            /\ FamilyOf(d) # NULL /\ FamilyOf(d) # FamilyOf(a))
    => Cardinality({FamilyOf(SlateOf(cur)[i]) : i \in 1..Len(SlateOf(cur))}) >= 2

RECURSIVE FreshPass(_, _, _, _, _)
\* first pass of the two-pass greedy slate: the positions of the first
\* candidate and of every later candidate whose family is not yet represented
FreshPass(ranked, i, taken, used, K) ==
    IF i > Len(ranked) \/ Len(taken) >= K THEN taken
    ELSE IF taken = <<>> \/ FamilyOf(ranked[i]) \notin used
         THEN FreshPass(ranked, i + 1, Append(taken, i), used \cup {FamilyOf(ranked[i])}, K)
         ELSE FreshPass(ranked, i + 1, taken, used, K)

RECURSIVE FillPass(_, _, _, _)
\* second pass: the skipped positions in rank order until K are taken
FillPass(ranked, i, taken, K) ==
    IF i > Len(ranked) \/ Len(taken) >= K THEN taken
    ELSE IF i \in Range(taken) THEN FillPass(ranked, i + 1, taken, K)
         ELSE FillPass(ranked, i + 1, Append(taken, i), K)

TwoPassGreedy(ranked, K) ==
    LET taken == FillPass(ranked, 1, FreshPass(ranked, 1, <<>>, {}, K), K)
    IN [j \in 1..Len(taken) |-> ranked[taken[j]]]

\* C2: diversify_recommendations returns the two-pass greedy slate of the
\* ranked list it is given (first candidate, then every candidate of a new
\* family in rank order, then the skipped ones in rank order until K); stated
\* for ranked lists of distinct products that all have a family.
C2_SlateIsTwoPassGreedy ==
    (/\ pc = "saving"
     /\ \A i, j \in 1..Len(cur.ranked) :
            i # j => cur.ranked[i].product_key # cur.ranked[j].product_key
     /\ \A i \in 1..Len(cur.ranked) : FamilyOf(cur.ranked[i]) # NULL)
    => SlateOf(cur) = TwoPassGreedy(cur.ranked, cur.result.max_recommendations)

\* C3: a call that returned success = true with limit K returned items whose
\* ranks are exactly 1..k, k <= K, with final_score weakly decreasing in rank.
C3_RanksArePrefixAndScoresDecrease ==
    ret.success =>
        LET recs == ret.recommendations
        IN /\ Len(recs) <= ret.max_recommendations
           /\ \A i \in 1..Len(recs) : recs[i].rank = i
           /\ \A i, j \in 1..Len(recs) :
                recs[i].rank < recs[j].rank => recs[i].score.final_score >= recs[j].score.final_score

C3_Witness ==
    /\ ret.success
    /\ Len(ret.recommendations) >= 2
    /\ Len(ret.recommendations) = ret.max_recommendations
    /\ ret.recommendations[1].score.final_score > ret.recommendations[2].score.final_score

RowsOfRun(run_id) == {r \in reco_item : r.reco_run_id = run_id}

\* C4: what another session can read of a run is all or nothing: the committed
\* reco_item rows of a run_id number 0 or the size of the run's slate, and 0
\* when a statement of the save failed.
C4_RunRowsAllOrNothing ==
    \A run_id \in 1..Len(runLog) :
        /\ Cardinality(RowsOfRun(run_id)) \in {0, runLog[run_id].size}
        /\ runLog[run_id].failed => RowsOfRun(run_id) = {}

\* in the middle of the save loop of a slate of two or more items
C4_Witness ==
    /\ pc = "saving"
    /\ Len(cur.result.recommendations) >= 2
    /\ saveIdx = 2
    /\ txn # {}

\* (now.date() - last_contact).days, for a customer with a contact
DaysSinceLastContact(c) == CHOOSE a \in contact_event[c] : \A b \in contact_event[c] : a <= b

AuditIds == {"a1", "a2"}
Actors == {"admin", "lead"}
Reasons == {"r1", "r2"}

ApprovalStatus == {"PENDING", "APPROVED", "REJECTED", "FLAGGED"}

\* a row as AuditLogDB(...) of log_recommendation leaves it (service.py:44-53);
\* approved_at 0 is NULL, the clock's readings start at 1
PendingRow ==
    [approval_status |-> "PENDING", approved_by |-> NULL, approval_reason |-> NULL,
     approved_at |-> 0, flags |-> <<>>]

\* db.query(AuditLogDB).filter(audit_id == id).first() finds a row
Found(table, audit_id) == audit_id \in DOMAIN table

\* the mutant: an approve that creates the entry it does not find
approve_recommendation_upsert(table, audit_id, approved_by, reason, t) ==
    [table |-> [id \in DOMAIN table \cup {audit_id} |->
                    IF id = audit_id
                    THEN [PendingRow EXCEPT !.approval_status = "APPROVED",
                                            !.approved_by = approved_by,
                                            !.approval_reason = reason,
                                            !.approved_at = t]
                    ELSE table[id]],
     result |-> TRUE]

\* approve_recommendation (service.py:74-90): the table after the call and
\* the returned flag; t is the reading of utcnow()
approve_recommendation(table, audit_id, approved_by, reason, t) ==
    IF ~Found(table, audit_id) THEN [table |-> table, result |-> FALSE]
    ELSE [table |-> [table EXCEPT ![audit_id].approval_status = "APPROVED",
                                  ![audit_id].approved_by = approved_by,
                                  ![audit_id].approval_reason = reason,
                                  ![audit_id].approved_at = t],
          result |-> TRUE]

\* reject_recommendation (service.py:92-108)
reject_recommendation(table, audit_id, approved_by, reason, t) ==
    IF ~Found(table, audit_id) THEN [table |-> table, result |-> FALSE]
    ELSE [table |-> [table EXCEPT ![audit_id].approval_status = "REJECTED",
                                  ![audit_id].approved_by = approved_by,
                                  ![audit_id].approval_reason = reason,
                                  ![audit_id].approved_at = t],
          result |-> TRUE]

\* flag_recommendation (service.py:110-125).  flags is a plain JSON column:
\* the list assigned at service.py:121 when flags is empty is written with the
\* reason appended; an append to the list loaded from a non-empty column is an
\* in-place change the session does not see, and the commit does not write it.
flag_recommendation(table, audit_id, flag_reason) ==
    IF ~Found(table, audit_id) THEN [table |-> table, result |-> FALSE]
    ELSE [table |-> [table EXCEPT ![audit_id].approval_status = "FLAGGED",
                                  ![audit_id].flags = IF @ = <<>> THEN <<flag_reason>> ELSE @],
          result |-> TRUE]

\* log_recommendation (service.py:25-57): AuditLog(...) at service.py:33 is
\* built without approval_reason, a dataclass field without default
\* (models.py:65), so the call raises TypeError before db.add
LogRecommendation ==
    /\ auditRet' = [op |-> "log_recommendation", audit_id |-> NULL, result |-> FALSE, raised |-> "TypeError"]
    /\ UNCHANGED <<audit_log, now, nonAuditVars>>

Approve(audit_id, approved_by, reason) ==
    /\ now < MaxClock
    /\ LET r == approve_recommendation(audit_log, audit_id, approved_by, reason, now + 1)
       IN /\ audit_log' = r.table
          /\ auditRet' = [op |-> "approve_recommendation", audit_id |-> audit_id, result |-> r.result,
                          raised |-> NULL]
          /\ now' = IF r.result THEN now + 1 ELSE now
    /\ UNCHANGED nonAuditVars

Reject(audit_id, approved_by, reason) ==
    /\ now < MaxClock
    /\ LET r == reject_recommendation(audit_log, audit_id, approved_by, reason, now + 1)
       IN /\ audit_log' = r.table
          /\ auditRet' = [op |-> "reject_recommendation", audit_id |-> audit_id, result |-> r.result,
                          raised |-> NULL]
          /\ now' = IF r.result THEN now + 1 ELSE now
    /\ UNCHANGED nonAuditVars

Flag(audit_id, flag_reason) ==
    /\ LET r == flag_recommendation(audit_log, audit_id, flag_reason)
       IN /\ audit_log' = r.table
          /\ auditRet' = [op |-> "flag_recommendation", audit_id |-> audit_id, result |-> r.result,
                          raised |-> NULL]
    /\ UNCHANGED <<now, nonAuditVars>>

\* the recommendation engine at rest on an empty store
RecoIdle ==
    /\ product = [p \in ProductKeys |-> [family |-> NULL, is_premium |-> FALSE, popularity_score |-> 0]]
    /\ order_line = {}
    /\ contact_event = [c \in Customers |-> {}]
    /\ reco_item = {}
    /\ reco_run = {}
    /\ txn = {}
    /\ pc = "idle"
    /\ cur = NoFrame
    /\ saveIdx = 1
    /\ ret = NoResult
    /\ runLog = <<>>
    /\ nextRun = 0

\* the audit_log table holds pending entries for any of the ids
AuditInit ==
    /\ audit_log \in UNION {[D -> {PendingRow}] : D \in SUBSET AuditIds}
    /\ auditRet = [op |-> "none", audit_id |-> NULL, result |-> FALSE, raised |-> NULL]
    /\ now = 0
    /\ RecoIdle
    /\ ServicesIdle
    /\ IngestEmpty
    /\ TransformEmpty
    /\ QualityEmpty

AuditNext ==
    \/ LogRecommendation
    \/ \E audit_id \in AuditIds, approved_by \in Actors, reason \in Reasons \cup {NULL} :
            Approve(audit_id, approved_by, reason)
    \/ \E audit_id \in AuditIds, approved_by \in Actors, reason \in Reasons :
            Reject(audit_id, approved_by, reason)
    \/ \E audit_id \in AuditIds, flag_reason \in Reasons : Flag(audit_id, flag_reason)

SpecAudit == AuditInit /\ [][AuditNext]_vars

(***************************************************************************)
(* Properties of the audit service, checked under SpecAudit                *)
(***************************************************************************)
\* C6: approve, reject and flag called with an audit_id that has no entry
\* return false and leave the audit_log table as it was.
C6_MissingEntryIsRefused ==
    [][\A audit_id \in {id \in AuditIds : ~Found(audit_log, id)} :
        /\ \A approved_by \in Actors, reason \in Reasons \cup {NULL} :
                Approve(audit_id, approved_by, reason) =>
                    auditRet'.result = FALSE /\ audit_log' = audit_log
        /\ \A approved_by \in Actors, reason \in Reasons :
                Reject(audit_id, approved_by, reason) =>
                    auditRet'.result = FALSE /\ audit_log' = audit_log
        /\ \A flag_reason \in Reasons :
                Flag(audit_id, flag_reason) =>
                    auditRet'.result = FALSE /\ audit_log' = audit_log
      ]_auditVars

\* a call on a missing id has just been refused while the table holds an entry
C6_Witness ==
    /\ auditRet.op \in {"approve_recommendation", "reject_recommendation", "flag_recommendation"}
    /\ auditRet.result = FALSE
    /\ ~Found(audit_log, auditRet.audit_id)
    /\ DOMAIN audit_log # {}

\* C7: approve on an entry that is already APPROVED is a no-op: its
\* approval_status, approved_by, approval_reason and approved_at stay as the
\* first approve left them, whatever actor and reason the second call carries.
C7_SecondApproveIsNoOp ==
    [][\A audit_id \in DOMAIN audit_log :
        \A approved_by \in Actors, reason \in Reasons \cup {NULL} :
            (Approve(audit_id, approved_by, reason)
             /\ audit_log[audit_id].approval_status = "APPROVED") =>
                /\ audit_log'[audit_id].approval_status = audit_log[audit_id].approval_status
                /\ audit_log'[audit_id].approved_by = audit_log[audit_id].approved_by
                /\ audit_log'[audit_id].approval_reason = audit_log[audit_id].approval_reason
                /\ audit_log'[audit_id].approved_at = audit_log[audit_id].approved_at
      ]_auditVars

\* C8: an entry's status becomes APPROVED or REJECTED only in a step that
\* starts from PENDING.
C8_DecisionOnlyFromPending ==
    [][\A audit_id \in DOMAIN audit_log :
        (/\ audit_log'[audit_id].approval_status \in {"APPROVED", "REJECTED"}
         /\ audit_log'[audit_id].approval_status # audit_log[audit_id].approval_status)
        => audit_log[audit_id].approval_status = "PENDING"
      ]_auditVars

(***************************************************************************)
(* Ingestion: readers (core/ingestion/readers.py), schemas and validators  *)
(* (schemas.py, validators.py).  A CSV file is the list of its data rows,  *)
(* or is unreadable; a cell is the string DictReader hands over.           *)
(***************************************************************************)
\* the strings of the model that match ^[^@]+@[^@]+\.[^@]+$ (schemas.py:46)
EmailPattern == {"a@b.fr"}

\* the strings of the model that match ^[a-zA-Z0-9\-]{2,20}$ (schemas.py:58)
PostalPattern == {"75001"}

\* value.strip().lower().replace(' ', ''), None for an empty cell (readers.py:64-72)
normalize_email(value) ==
    IF value = "" THEN NULL
    ELSE IF value = "A@b.fr " THEN "a@b.fr"
    ELSE value

\* CustomerReader.read_and_normalize, one row (readers.py:148-158)
NormalizeCustomerRow(row) ==
    [customer_code |-> row.customer_code, email |-> normalize_email(row.email),
     postal_code |-> row.postal_code]

\* CSVReader.read_csv then the row loop (readers.py:140-161): the rows, or
\* the read error
CustomerReader_read_and_normalize(file) ==
    IF ~file.readable THEN [rows |-> <<>>, error |-> "read_error"]
    ELSE [rows |-> [i \in 1..Len(file.rows) |-> NormalizeCustomerRow(file.rows[i])],
          error |-> NULL]

\* CustomerSchema(**row): does the row pass the three field validators
CustomerSchemaAccepts(row) ==
    /\ row.customer_code # ""
    /\ row.email = NULL \/ row.email \in EmailPattern
    /\ row.postal_code = "" \/ row.postal_code \in PostalPattern

\* validated.model_dump(): an empty postal code is dumped as None (schemas.py:61)
CustomerSchemaDump(row) ==
    [customer_code |-> row.customer_code, email |-> row.email,
     postal_code |-> IF row.postal_code = "" THEN NULL ELSE row.postal_code]

\* IngestionError (schemas.py:208-214) without its message and raw_row
IngestionError(row_number, file_type, error_code) ==
    [row_number |-> row_number, file_type |-> file_type, error_code |-> error_code]

RECURSIVE CustomerBatchLoop(_, _, _, _, _)
\* the for loop of CustomerValidator.validate_batch (validators.py:73-97)
\* from list position i on; the row number is the position plus 1
CustomerBatchLoop(rows, i, seen_codes, valid_rows, errors) ==
    IF i > Len(rows) THEN [valid_rows |-> valid_rows, errors |-> errors]
    ELSE LET row == rows[i]
             customer_code == row.customer_code
         IN IF customer_code \in seen_codes
            THEN CustomerBatchLoop(rows, i + 1, seen_codes, valid_rows,
                    Append(errors, IngestionError(i + 1, "customers", "DUPLICATE_CUSTOMER")))
            ELSE IF ~CustomerSchemaAccepts(row)
            THEN CustomerBatchLoop(rows, i + 1, seen_codes \cup {customer_code}, valid_rows,
                    Append(errors, IngestionError(i + 1, "customers", "VALIDATION_ERROR")))
            ELSE CustomerBatchLoop(rows, i + 1, seen_codes \cup {customer_code},
                    Append(valid_rows, CustomerSchemaDump(row)), errors)

CustomerValidator_validate_batch(rows) == CustomerBatchLoop(rows, 1, {}, <<>>, <<>>)

(***************************************************************************)
(* Ingestion: loaders (core/ingestion/loaders.py) on a PostgreSQL session. *)
(* A statement that fails aborts the session's transaction: every later    *)
(* statement fails until the transaction ends, and its commit rolls back.  *)
(***************************************************************************)
\* sha256 of the row's sorted JSON: one digest per row content
calculate_row_hash(row) == <<"sha256", row>>

\* the mutant: a staging table without UNIQUE(batch_id, row_hash)
unique_violation_never(table, pending, batch_id, row_hash) == FALSE

\* would the INSERT break UNIQUE(batch_id, row_hash) (loaders.py:72)
unique_violation(table, pending, batch_id, row_hash) ==
    \E r \in Range(table) \cup Range(pending) : r.batch_id = batch_id /\ r.row_hash = row_hash

RECURSIVE InsertLoop(_, _, _, _, _, _, _)
\* the for loop of load_raw_* (loaders.py:77-95) from row i on: the rows
\* inserted in the open transaction, its status, the count of accepted INSERTs
InsertLoop(table, rows, i, batch_id, pending, status, loaded_count) ==
    IF i > Len(rows) THEN [pending |-> pending, status |-> status, loaded_count |-> loaded_count]
    ELSE LET row_hash == calculate_row_hash(rows[i])
         IN IF status = "aborted" \/ unique_violation(table, pending, batch_id, row_hash)
            THEN InsertLoop(table, rows, i + 1, batch_id, pending, "aborted", loaded_count)
            ELSE InsertLoop(table, rows, i + 1, batch_id,
                    Append(pending, [batch_id |-> batch_id, row_hash |-> row_hash, row_data |-> rows[i]]),
                    status, loaded_count + 1)

\* load_raw_customers / load_raw_sales_lines (loaders.py:46-99, 102-152) on
\* the staging table `table`: the table and the session afterwards, the count
\* returned, the exception raised by the CREATE TABLE statement if any
load_raw(table, status, rows, batch_id) ==
    IF rows = <<>> THEN [table |-> table, status |-> status, loaded_count |-> 0, raised |-> NULL]
    ELSE IF status = "aborted"
    THEN [table |-> table, status |-> status, loaded_count |-> 0, raised |-> "InFailedSqlTransaction"]
    ELSE LET l == InsertLoop(table, rows, 1, batch_id, <<>>, "clean", 0)
         IN [table |-> IF l.status = "aborted" THEN table ELSE table \o l.pending,
             status |-> "clean", loaded_count |-> l.loaded_count, raised |-> NULL]

\* IngestionErrorLoader.load_errors (loaders.py:212-262): with errors to load,
\* the CREATE TABLE statement (loaders.py:226-238) carries an INDEX clause,
\* which PostgreSQL rejects; db.execute raises outside any try block
load_errors(status, errors) ==
    IF errors = <<>> THEN [status |-> status, raised |-> NULL]
    ELSE IF status = "aborted" THEN [status |-> "aborted", raised |-> "InFailedSqlTransaction"]
    ELSE [status |-> "aborted", raised |-> "ProgrammingError"]

\* IngestionReportLoader.load_batch_metadata (loaders.py:269-311): the INSERT
\* that breaks UNIQUE(batch_id, file_type) is caught and logged, nothing
\* rolls back
load_batch_metadata(batches, status, batch_id, file_type, total_rows, valid_rows, error_count) ==
    IF status = "aborted"
    THEN [batches |-> batches, status |-> status, raised |-> "InFailedSqlTransaction"]
    ELSE IF \E b \in batches : b.batch_id = batch_id /\ b.file_type = file_type
    THEN [batches |-> batches, status |-> "aborted", raised |-> NULL]
    ELSE [batches |-> batches \cup {[batch_id |-> batch_id, file_type |-> file_type,
                                     total_rows |-> total_rows, valid_rows |-> valid_rows,
                                     error_count |-> error_count]},
          status |-> "clean", raised |-> NULL]

(***************************************************************************)
(* Ingestion of sales lines.  A normalised cell keeps the Python type the  *)
(* reader gave it: the schema's fields are typed str.                      *)
(***************************************************************************)
Str(v) == [type |-> "str", value |-> v]
Float(v) == [type |-> "float", value |-> v]
None == [type |-> "NoneType", value |-> ""]

\* float(v.replace(',', '.')) on the numeric cells of the model
ParseFloat(v) == CASE v = "2" -> 2 [] v = "0" -> 0 [] v = "10" -> 10 [] OTHER -> -1

\* DataNormalizer.normalize_decimal (readers.py:109-122): a float, or None
normalize_decimal(value) == IF value = "" THEN None ELSE Float(value)

\* DataNormalizer.normalize_product_label (readers.py:125-133)
normalize_product_label(value) ==
    CASE value = "" -> NULL
      [] value = "Wine A" -> "wine a"
      [] value = "Wine Z" -> "wine z"
      [] OTHER -> value

\* SalesLineReader.read_and_normalize, one row (readers.py:175-197)
NormalizeSalesRow(row) ==
    [customer_code |-> row.customer_code, product_label |-> row.product_label,
     product_label_norm |-> normalize_product_label(row.product_label),
     qty |-> normalize_decimal(row.qty), amount_ht |-> normalize_decimal(row.amount_ht)]

SalesLineReader_read_and_normalize(file) ==
    IF ~file.readable THEN [rows |-> <<>>, error |-> "read_error"]
    ELSE [rows |-> [i \in 1..Len(file.rows) |-> NormalizeSalesRow(file.rows[i])],
          error |-> NULL]

\* SalesLineSchema(**row) (schemas.py:64-144): qty and amount_ht are str
\* fields, pydantic takes no float and no None for them; product_label_norm
\* is no field of the schema and is ignored
SalesLineSchemaAccepts(row) ==
    /\ row.customer_code # ""
    /\ row.product_label # ""
    /\ row.qty.type = "str" /\ row.qty.value # "" /\ ParseFloat(row.qty.value) > 0
    /\ row.amount_ht.type = "str" /\ row.amount_ht.value # "" /\ ParseFloat(row.amount_ht.value) >= 0

\* validated.model_dump(): the fields of the schema
SalesLineSchemaDump(row) ==
    [customer_code |-> row.customer_code, product_label |-> row.product_label,
     qty |-> row.qty, amount_ht |-> row.amount_ht]

\* dict.get(key) on a dumped row, None for a key it does not have
Get(row, key) == IF key \in DOMAIN row THEN row[key] ELSE NULL

RECURSIVE SalesBatchLoop(_, _, _, _)
\* the for loop of SalesLineValidator.validate_batch (validators.py:115-135)
SalesBatchLoop(rows, i, valid_rows, errors) ==
    IF i > Len(rows) THEN [valid_rows |-> valid_rows, errors |-> errors]
    ELSE IF ~SalesLineSchemaAccepts(rows[i])
    THEN SalesBatchLoop(rows, i + 1, valid_rows,
            Append(errors, IngestionError(i + 1, "sales_lines", "VALIDATION_ERROR")))
    ELSE IF Get(SalesLineSchemaDump(rows[i]), "product_label_norm") \in {NULL, ""}
    THEN SalesBatchLoop(rows, i + 1, valid_rows,
            Append(errors, IngestionError(i + 1, "sales_lines", "INVALID_PRODUCT_LABEL")))
    ELSE SalesBatchLoop(rows, i + 1, Append(valid_rows, SalesLineSchemaDump(rows[i])), errors)

SalesLineValidator_validate_batch(rows) == SalesBatchLoop(rows, 1, <<>>, <<>>)

\* rows.index(next(r for r in rows if r.get(key) == row.get(key))) + 2
FirstRowNumber(rows, key, row) ==
    1 + CHOOSE i \in 1..Len(rows) :
            /\ Get(rows[i], key) = Get(row, key)
            /\ \A j \in 1..(i - 1) : Get(rows[j], key) # Get(row, key)

RECURSIVE DependencyLoop(_, _, _, _, _, _, _, _)
\* the loops of steps 3 and 4 of ingest_sales_lines (service.py:174-187 and
\* 194-208) over the rows that were valid when the loop began: a row whose
\* key is not among the known values becomes an error of the given code
DependencyLoop(rows, todo, i, key, row_key, known, code, acc) ==
    IF i > Len(todo) THEN acc
    ELSE IF Get(todo[i], key) \in known
    THEN DependencyLoop(rows, todo, i + 1, key, row_key, known, code,
            [acc EXCEPT !.valid_rows = Append(@, todo[i])])
    ELSE DependencyLoop(rows, todo, i + 1, key, row_key, known, code,
            [acc EXCEPT !.errors = Append(@,
                IngestionError(FirstRowNumber(rows, row_key, todo[i]), "sales_lines", code))])

\* `if valid_customers:` / `if product_aliases:`: given and not empty
Truthy(arg) == arg.given /\ arg.value # {}

\* steps 2 to 4 of ingest_sales_lines (service.py:166-210): the rows to load
\* and the errors of the report; valid_customers holds customer codes,
\* product_aliases the normalised labels of the alias mapping
ValidateSalesLines(rows, valid_customers, product_aliases) ==
    LET v == SalesLineValidator_validate_batch(rows)
        c == IF Truthy(valid_customers)
             THEN DependencyLoop(rows, v.valid_rows, 1, "customer_code", "customer_code",
                      valid_customers.value, "CUSTOMER_NOT_FOUND",
                      [valid_rows |-> <<>>, errors |-> <<>>])
             ELSE [valid_rows |-> v.valid_rows, errors |-> <<>>]
        a == IF Truthy(product_aliases)
             THEN DependencyLoop(rows, c.valid_rows, 1, "product_label_norm", "product_label",
                      product_aliases.value, "PRODUCT_NOT_FOUND",
                      [valid_rows |-> <<>>, errors |-> <<>>])
             ELSE [valid_rows |-> c.valid_rows, errors |-> <<>>]
    IN [valid_rows |-> a.valid_rows, errors |-> v.errors \o c.errors \o a.errors]

(***************************************************************************)
(* Ingestion service (core/ingestion/service.py).  An ingest_* call is one *)
(* step: what it leaves in the staging tables and in the session, and how  *)
(* it ends.                                                                *)
(***************************************************************************)
\* what an ingest_* call leaves behind
Outcome(table, batches, status, result) ==
    [table |-> table, batches |-> batches, status |-> status, result |-> result]

\* service.py:81-120 and 217-256, the same for both files: load the valid
\* rows into `table`, the errors, the metadata, and build the report
LoadAndReport(op, file_type, table, batches, status, batch_id, file, total_rows, valid_rows, errors) ==
    LET l == load_raw(table, status, valid_rows, batch_id)
        e == load_errors(l.status, errors)
        m == load_batch_metadata(batches, e.status, batch_id, file_type,
                                 total_rows, l.loaded_count, Len(errors))
        report == IngestionReport(batch_id, file_type, total_rows, l.loaded_count, Len(errors), errors)
    IN IF l.raised # NULL
       THEN Outcome(table, batches, l.status,
                IngestResult(op, batch_id, file, l.raised, NoReport, FALSE, errors))
       ELSE IF e.raised # NULL
       THEN Outcome(l.table, batches, e.status,
                IngestResult(op, batch_id, file, e.raised, NoReport, FALSE, errors))
       ELSE IF m.raised # NULL
       THEN Outcome(l.table, batches, m.status,
                IngestResult(op, batch_id, file, m.raised, NoReport, FALSE, errors))
       ELSE Outcome(l.table, m.batches, m.status,
                IngestResult(op, batch_id, file, NULL, report, Len(errors) = 0, errors))

\* the early return on a read error (service.py:59-69, 151-161)
ReadFailed(op, file_type, table, batches, status, batch_id, file) ==
    Outcome(table, batches, status,
        IngestResult(op, batch_id, file, NULL,
            IngestionReport(batch_id, file_type, 0, 0, 0, <<>>), FALSE, <<>>))

\* IngestionService.ingest_customers (service.py:36-120)
ingest_customers(table, batches, status, batch_id, file) ==
    LET r == CustomerReader_read_and_normalize(file)
        v == CustomerValidator_validate_batch(r.rows)
    IN IF r.error # NULL
       THEN ReadFailed("ingest_customers", "customers", table, batches, status, batch_id, file)
       ELSE LoadAndReport("ingest_customers", "customers", table, batches, status, batch_id,
                          file, Len(r.rows), v.valid_rows, v.errors)

\* IngestionService.ingest_sales_lines (service.py:122-256)
ingest_sales_lines(table, batches, status, batch_id, file, valid_customers, product_aliases) ==
    LET r == SalesLineReader_read_and_normalize(file)
        v == ValidateSalesLines(r.rows, valid_customers, product_aliases)
    IN IF r.error # NULL
       THEN ReadFailed("ingest_sales_lines", "sales_lines", table, batches, status, batch_id, file)
       ELSE LoadAndReport("ingest_sales_lines", "sales_lines", table, batches, status, batch_id,
                          file, Len(r.rows), v.valid_rows, v.errors)

\* the batch_id of a service instance: uuid4, minted in __init__ (service.py:33)
BatchIds == {"b1", "b2"}

\* the cells of customers.csv rows
CustomerFileRows ==
    {[customer_code |-> "C1", email |-> "a@b.fr", postal_code |-> "75001"],
     [customer_code |-> "C2", email |-> "A@b.fr ", postal_code |-> ""],
     [customer_code |-> "", email |-> "a@b.fr", postal_code |-> "75001"],
     [customer_code |-> "C2", email |-> "ab.fr", postal_code |-> "75001"],
     [customer_code |-> "C1", email |-> "", postal_code |-> "7"]}

\* the cells of sales_lines.csv rows
SalesFileRows ==
    {[customer_code |-> "C1", product_label |-> "Wine A", qty |-> "2", amount_ht |-> "10"],
     [customer_code |-> "C9", product_label |-> "Wine A", qty |-> "2", amount_ht |-> "10"],
     [customer_code |-> "C1", product_label |-> "Wine Z", qty |-> "2", amount_ht |-> "10"],
     [customer_code |-> "C1", product_label |-> "Wine A", qty |-> "0", amount_ht |-> "-1"]}

\* the files over a set of rows: unreadable, or up to MaxFileRows data rows
FilesOver(Rows) ==
    {NoFile} \cup {[readable |-> TRUE, rows |-> rows] :
                    rows \in UNION {[1..n -> Rows] : n \in 0..MaxFileRows}}

ValidCustomersArgs == {NotGiven, Given({}), Given({"C1"})}
ProductAliasesArgs == {NotGiven, Given({"wine a"})}

IngestCustomers(batch_id, file) ==
    /\ Len(ingestLog) < MaxIngests
    /\ LET o == ingest_customers(raw_customers, ingestion_batches, db_status, batch_id, file)
       IN /\ raw_customers' = o.table
          /\ ingestion_batches' = o.batches
          /\ db_status' = o.status
          /\ ingestLog' = Append(ingestLog, o.result)
    /\ UNCHANGED <<raw_sales_lines, nonIngestVars>>

\* the arguments of the call are kept with the result
IngestSalesLines(batch_id, file, valid_customers, product_aliases) ==
    /\ Len(ingestLog) < MaxIngests
    /\ LET o == ingest_sales_lines(raw_sales_lines, ingestion_batches, db_status, batch_id,
                                   file, valid_customers, product_aliases)
       IN /\ raw_sales_lines' = o.table
          /\ ingestion_batches' = o.batches
          /\ db_status' = o.status
          /\ ingestLog' = Append(ingestLog,
                [o.result EXCEPT !.valid_customers = valid_customers,
                                 !.product_aliases = product_aliases])
    /\ UNCHANGED <<raw_customers, nonIngestVars>>

\* the owner of the session ends the failed transaction (Session.rollback,
\* or Session.close as in get_db)
SessionRollback ==
    /\ db_status = "aborted"
    /\ db_status' = "clean"
    /\ UNCHANGED <<raw_customers, raw_sales_lines, ingestion_batches, ingestLog, nonIngestVars>>

IngestInit ==
    /\ IngestEmpty
    /\ RecoIdle
    /\ ServicesIdle
    /\ AuditEmpty
    /\ TransformEmpty
    /\ QualityEmpty

IngestNext ==
    \/ \E batch_id \in BatchIds, file \in FilesOver(CustomerFileRows) : IngestCustomers(batch_id, file)
    \/ \E batch_id \in BatchIds, file \in FilesOver(SalesFileRows) :
        \E valid_customers \in ValidCustomersArgs, product_aliases \in ProductAliasesArgs :
            IngestSalesLines(batch_id, file, valid_customers, product_aliases)
    \/ SessionRollback

SpecIngest == IngestInit /\ [][IngestNext]_vars

(***************************************************************************)
(* Properties of ingestion                                                 *)
(***************************************************************************)
\* the last ingest_* call made
LastIngest == ingestLog[Len(ingestLog)]

\* the row a raw staging table holds for a validated row of a batch
RawRow(batch_id, row) ==
    [batch_id |-> batch_id, row_hash |-> calculate_row_hash(row), row_data |-> row]

\* C9: an ingest_* call that repeats the call before it (same operation, same
\* batch_id, same file) leaves raw_customers and raw_sales_lines exactly as
\* that first call left them: no row added, removed or duplicated.  The first
\* call is one that ran, not one refused by a session left in a failed
\* transaction.
C9_ReingestLeavesRawStagingIdentical ==
    [][(/\ ingestLog # <<>>
        /\ Len(ingestLog') = Len(ingestLog) + 1
        /\ LastIngest'.op = LastIngest.op
        /\ LastIngest'.batch_id = LastIngest.batch_id
        /\ LastIngest'.file = LastIngest.file
        /\ LastIngest.raised # "InFailedSqlTransaction")
       => (raw_customers' = raw_customers /\ raw_sales_lines' = raw_sales_lines)]_ingestVars

\* C9 happens: a file whose rows the first call loaded was ingested again
\* under the same batch_id, and the second call ran its INSERTs too
C9_Witness ==
    /\ Len(ingestLog) = 2
    /\ ingestLog[1].op = "ingest_customers" /\ ingestLog[2].op = "ingest_customers"
    /\ ingestLog[1].batch_id = ingestLog[2].batch_id
    /\ ingestLog[1].file = ingestLog[2].file
    /\ ingestLog[1].raised = NULL /\ ingestLog[1].report.valid_rows = 2
    /\ ingestLog[2].raised = NULL /\ ingestLog[2].report.valid_rows = 0
    /\ Len(raw_customers) = 2
    /\ \A r \in Range(raw_customers) : r.batch_id = ingestLog[2].batch_id

\* the codes of the rules of the specification's validation step that row i of
\* a customers file violates
CustomerRuleCodes(rows, i) ==
    (IF \/ rows[i].customer_code = ""
        \/ normalize_email(rows[i].email) \notin EmailPattern \cup {NULL}
        \/ rows[i].postal_code \notin PostalPattern \cup {""}
     THEN {"VALIDATION_ERROR"} ELSE {})
    \cup (IF \E j \in 1..(i - 1) : rows[j].customer_code = rows[i].customer_code
          THEN {"DUPLICATE_CUSTOMER"} ELSE {})

\* the codes of the rules of the specification's validation and dependency
\* steps that row i of a sales_lines file violates, given the reference sets
SalesRuleCodes(rows, i, valid_customers, product_aliases) ==
    (IF \/ rows[i].customer_code = "" \/ rows[i].product_label = ""
        \/ rows[i].qty = "" \/ ParseFloat(rows[i].qty) <= 0
        \/ rows[i].amount_ht = "" \/ ParseFloat(rows[i].amount_ht) < 0
     THEN {"VALIDATION_ERROR"} ELSE {})
    \cup (IF normalize_product_label(rows[i].product_label) = NULL
          THEN {"INVALID_PRODUCT_LABEL"} ELSE {})
    \cup (IF valid_customers.given /\ rows[i].customer_code \notin valid_customers.value
          THEN {"CUSTOMER_NOT_FOUND"} ELSE {})
    \cup (IF /\ product_aliases.given
             /\ normalize_product_label(rows[i].product_label) \notin product_aliases.value
          THEN {"PRODUCT_NOT_FOUND"} ELSE {})

\* the codes of the rules row i of a call's file violates
RuleCodes(call, i) ==
    IF call.op = "ingest_customers"
    THEN CustomerRuleCodes(call.file.rows, i)
    ELSE SalesRuleCodes(call.file.rows, i, call.valid_customers, call.product_aliases)

\* is row i of a call's file in the raw staging table of its file type
Loaded(call, i) ==
    IF call.op = "ingest_customers"
    THEN RawRow(call.batch_id, CustomerSchemaDump(NormalizeCustomerRow(call.file.rows[i])))
            \in Range(raw_customers)
    ELSE RawRow(call.batch_id, SalesLineSchemaDump(NormalizeSalesRow(call.file.rows[i])))
            \in Range(raw_sales_lines)

\* C10: after an ingest_* call on a readable file, for every row that violates
\* one rule, the report the call returned holds exactly one error for that
\* row number, it carries the code of the violated rule, and the row is not
\* in raw staging (a row that only repeats a customer_code may equal the
\* loaded first occurrence).
C10_ViolatingRowHasOneErrorAndIsNotLoaded ==
    (ingestLog # <<>> /\ LastIngest.file.readable) =>
        \A i \in 1..Len(LastIngest.file.rows) :
            Cardinality(RuleCodes(LastIngest, i)) = 1 =>
                LET errors == LastIngest.report.errors
                    mine == {k \in 1..Len(errors) : errors[k].row_number = i + 1}
                IN /\ Cardinality(mine) = 1
                   /\ \A k \in mine : errors[k].error_code \in RuleCodes(LastIngest, i)
                   /\ RuleCodes(LastIngest, i) # {"DUPLICATE_CUSTOMER"} => ~Loaded(LastIngest, i)

\* the errors a call collected for the file row at list position i
ErrorsOfRow(call, i) == {k \in 1..Len(call.errors) : call.errors[k].row_number = i + 1}

\* C11: after ingest_customers on a readable file, a row whose customer_code
\* no earlier row carries is not reported as a duplicate; a row whose code an
\* earlier row carries has exactly one error, DUPLICATE_CUSTOMER; and a row is
\* reported as a duplicate only if an earlier row with its code was kept
\* (has no error).
C11_DuplicateOnlyOfKeptRow ==
    (ingestLog # <<>> /\ LastIngest.op = "ingest_customers" /\ LastIngest.file.readable) =>
        LET rows == LastIngest.file.rows
            errors == LastIngest.errors
            Earlier(i) == {j \in 1..(i - 1) : rows[j].customer_code = rows[i].customer_code}
        IN \A i \in 1..Len(rows) :
            /\ Earlier(i) = {} =>
                 \A k \in ErrorsOfRow(LastIngest, i) : errors[k].error_code # "DUPLICATE_CUSTOMER"
            /\ Earlier(i) # {} =>
                 /\ Cardinality(ErrorsOfRow(LastIngest, i)) = 1
                 /\ \A k \in ErrorsOfRow(LastIngest, i) : errors[k].error_code = "DUPLICATE_CUSTOMER"
            /\ (\E k \in ErrorsOfRow(LastIngest, i) : errors[k].error_code = "DUPLICATE_CUSTOMER") =>
                 \E j \in Earlier(i) : ErrorsOfRow(LastIngest, j) = {}

\* does row i of a sales_lines file satisfy the rules of the schema on its
\* cells: required fields present, qty > 0, amount_ht >= 0, a derivable label
SchemaValidSalesRow(rows, i) ==
    SalesRuleCodes(rows, i, NotGiven, NotGiven) = {}

\* C12: after ingest_sales_lines on a readable file with a reference customer
\* set given (empty or not), there is one CUSTOMER_NOT_FOUND error for each
\* schema-valid row whose customer_code is not in the set, and no such row is
\* in raw_sales_lines.
C12_UnknownCustomerIsRefused ==
    (/\ ingestLog # <<>>
     /\ LastIngest.op = "ingest_sales_lines"
     /\ LastIngest.file.readable
     /\ LastIngest.valid_customers.given) =>
        LET rows == LastIngest.file.rows
            errors == LastIngest.errors
            unknown == {i \in 1..Len(rows) :
                          /\ SchemaValidSalesRow(rows, i)
                          /\ rows[i].customer_code \notin LastIngest.valid_customers.value}
        IN /\ Cardinality({k \in 1..Len(errors) : errors[k].error_code = "CUSTOMER_NOT_FOUND"})
                = Cardinality(unknown)
           /\ \A i \in unknown : ~Loaded(LastIngest, i)

\* C13: an ingest_* call on a file that cannot be read returns (it does not
\* raise) success = false and a report with total_rows = 0 that carries an
\* error describing the failure (errors is the only field of IngestionReport
\* that can hold a message), and leaves both raw staging tables as they were.
C13_UnreadableFileIsReported ==
    [][(Len(ingestLog') = Len(ingestLog) + 1 /\ ~LastIngest'.file.readable) =>
        /\ LastIngest'.raised = NULL
        /\ LastIngest'.success = FALSE
        /\ LastIngest'.report.total_rows = 0
        /\ LastIngest'.report.errors # <<>>
        /\ raw_customers' = raw_customers
        /\ raw_sales_lines' = raw_sales_lines]_ingestVars

(***************************************************************************)
(* Transform pipeline, stage A: customer deduplication                     *)
(* (core/transform/customer_deduplicator.py).  A customer_code that is the *)
(* comma-join of source codes is kept as the list of the codes joined; a   *)
(* record that was not merged has no customer_codes_merged and no          *)
(* duplicate_count key, written FALSE and 0.                               *)
(***************************************************************************)
\* a falsy value of an optional text field: None or the empty string
Falsy(value) == value \in {NULL, ""}

\* rows_with_id (customer_deduplicator.py:133-142): the rows of the batch in
\* id order, each with its _id
FetchRawCustomers(table, batch_id) ==
    LET F[i \in 0..Len(table)] ==
            IF i = 0 THEN <<>>
            ELSE IF table[i].batch_id = batch_id
                 THEN Append(F[i - 1], [_id |-> i,
                                        customer_code |-> table[i].row_data.customer_code,
                                        email |-> table[i].row_data.email,
                                        phone |-> table[i].row_data.phone])
                 ELSE F[i - 1]
    IN F[Len(table)]

\* the keys of the dict built by get_email_groups / get_phone_groups, in
\* insertion order: the truthy values of the field, by first occurrence
GroupKeys(rows, field) ==
    LET F[i \in 0..Len(rows)] ==
            IF i = 0 THEN <<>>
            ELSE IF Falsy(rows[i][field]) \/ rows[i][field] \in Range(F[i - 1])
                 THEN F[i - 1]
                 ELSE Append(F[i - 1], rows[i][field])
    IN F[Len(rows)]

\* the rows with a given value of the field, in list order
RowsWith(rows, field, value) ==
    LET F[i \in 0..Len(rows)] ==
            IF i = 0 THEN <<>>
            ELSE IF rows[i][field] = value THEN Append(F[i - 1], rows[i]) ELSE F[i - 1]
    IN F[Len(rows)]

\* CustomerDeduplicator.get_email_groups (customer_deduplicator.py:24-44):
\* the groups in the order of the dict's items()
get_email_groups(rows) ==
    [k \in 1..Len(GroupKeys(rows, "email")) |-> RowsWith(rows, "email", GroupKeys(rows, "email")[k])]

\* CustomerDeduplicator.get_phone_groups (customer_deduplicator.py:47-67)
get_phone_groups(rows) ==
    [k \in 1..Len(GroupKeys(rows, "phone")) |-> RowsWith(rows, "phone", GroupKeys(rows, "phone")[k])]

\* a fetched row as deduplicate_batch emits it when it is not merged
Unmerged(row) ==
    [_id |-> row._id, customer_code |-> <<row.customer_code>>, email |-> row.email,
     phone |-> row.phone, customer_codes_merged |-> FALSE, duplicate_count |-> 0]

\* the first truthy value of the field among the rows, None if there is none
FirstTruthy(duplicates, field) ==
    IF \E i \in 1..Len(duplicates) : ~Falsy(duplicates[i][field])
    THEN duplicates[CHOOSE i \in 1..Len(duplicates) :
                        /\ ~Falsy(duplicates[i][field])
                        /\ \A j \in 1..(i - 1) : Falsy(duplicates[j][field])][field]
    ELSE duplicates[1][field]

\* CustomerDeduplicator.merge_customer_records (customer_deduplicator.py:70-113)
\* on a list of at least one row
merge_customer_records(duplicates) ==
    IF Len(duplicates) = 1 THEN Unmerged(duplicates[1])
    ELSE [_id |-> duplicates[1]._id,
          customer_code |-> SelectSeq([i \in 1..Len(duplicates) |-> duplicates[i].customer_code],
                                      LAMBDA code : ~Falsy(code)),
          email |-> FirstTruthy(duplicates, "email"),
          phone |-> FirstTruthy(duplicates, "phone"),
          customer_codes_merged |-> Len(duplicates) > 1,
          duplicate_count |-> Len(duplicates)]

\* CustomerDeduplicator.deduplicate_batch (customer_deduplicator.py:115-190) on
\* a session whose transaction has the given status: a SELECT that raises is
\* caught and the call returns ([], {}).  phone_groups is computed and not read.
deduplicate_batch(table, status, batch_id) ==
    LET rows_with_id == FetchRawCustomers(table, batch_id)
        email_groups == get_email_groups(rows_with_id)
        phone_groups == get_phone_groups(rows_with_id)
        byEmail == [k \in 1..Len(email_groups) |-> merge_customer_records(email_groups[k])]
        noEmail == SelectSeq(rows_with_id, LAMBDA row : Falsy(row.email))
    IN IF status = "aborted" \/ rows_with_id = <<>>
       THEN [dedup_customers |-> <<>>, duplicates_map |-> {}]
       ELSE [dedup_customers |-> byEmail \o [k \in 1..Len(noEmail) |-> Unmerged(noEmail[k])],
             duplicates_map |->
                {[primary_id |-> email_groups[k][1]._id,
                  duplicate_ids |-> [j \in 1..(Len(email_groups[k]) - 1) |-> email_groups[k][j + 1]._id]] :
                    k \in {g \in 1..Len(email_groups) : Len(email_groups[g]) > 1}}]

(***************************************************************************)
(* Transform pipeline: product resolution and the clean-table loaders      *)
(* (core/transform/product_resolver.py, transform_loaders.py).  The session*)
(* is the PostgreSQL session of the ingestion model; "aborted" also stands *)
(* for a Session whose flush failed and that was not rolled back.          *)
(***************************************************************************)
\* a ProductResolver: its _loaded flag and its _cache (product_resolver.py:21-22)
ProductResolver(loaded, cache) == [loaded |-> loaded, cache |-> cache]

\* ProductResolver.load_aliases (product_resolver.py:24-51).  The SELECT names
\* a column is_active that product_alias does not have (db/models.py:66-75,
\* alembic/versions/001_initial_schema.py:57-64): the statement raises, the
\* exception is caught, the cache stays as it was and the transaction is left
\* aborted.
load_aliases(resolver, status) ==
    IF resolver.loaded THEN [resolver |-> resolver, status |-> status]
    ELSE [resolver |-> resolver, status |-> "aborted"]

\* ProductResolver.resolve (product_resolver.py:53-78): the product_key of
\* the cache, or None, and the resolver and the session afterwards
resolve(resolver, status, label_norm) ==
    LET l == load_aliases(resolver, status)
        hit == {a \in l.resolver.cache : a.label_norm = label_norm /\ ~Falsy(a.product_key)}
    IN [product_key |-> IF hit = {} THEN NULL ELSE (CHOOSE a \in hit : TRUE).product_key,
        resolver |-> l.resolver, status |-> l.status]

RECURSIVE OrderLineLoop(_, _, _, _, _, _)
\* the for loop of load_order_lines (transform_loaders.py:90-123) from line i
\* on: the OrderLine objects added to the session, the count, the session
OrderLineLoop(order_lines, i, resolver, status, added, loaded) ==
    IF i > Len(order_lines) THEN [added |-> added, loaded |-> loaded, status |-> status]
    ELSE LET r == resolve(resolver, status, order_lines[i].product_label_norm)
         IN IF r.product_key = NULL
            THEN OrderLineLoop(order_lines, i + 1, r.resolver, r.status, added, loaded)
            ELSE OrderLineLoop(order_lines, i + 1, r.resolver, r.status,
                    Append(added, [doc_ref |-> order_lines[i].doc_ref, product_key |-> r.product_key]),
                    loaded + 1)

\* TransformLoader.load_order_lines (transform_loaders.py:71-127) on lines
\* whose customer and dates are good: the order_line table and the session
\* afterwards, the count returned, the exception db.commit() raised if any.
\* A commit that has rows to flush in a failed transaction raises; a commit
\* with nothing to flush ends the failed transaction.
load_order_lines(table, status, order_lines, resolver) ==
    IF order_lines = <<>> THEN [table |-> table, status |-> status, loaded |-> 0, raised |-> NULL]
    ELSE LET l == OrderLineLoop(order_lines, 1, resolver, status, <<>>, 0)
         IN IF l.added # <<>> /\ l.status = "aborted"
            THEN [table |-> table, status |-> "aborted", loaded |-> 0,
                  raised |-> "InFailedSqlTransaction"]
            ELSE [table |-> table \o l.added, status |-> "clean", loaded |-> l.loaded,
                  raised |-> NULL]

\* TransformLoader.load_customers (transform_loaders.py:26-69) on a non-empty
\* list: the customer table and the session afterwards, the count returned,
\* the exception db.commit() raised if any.  customer_code is the primary key
\* of customer (db/models.py:82).
load_customers(table, status, customers) ==
    LET codes == {customers[i].customer_code : i \in 1..Len(customers)}
    IN IF status = "aborted"
       THEN [table |-> table, status |-> "aborted", loaded |-> 0, raised |-> "InFailedSqlTransaction"]
       ELSE IF codes \cap table # {} \/ Cardinality(codes) < Len(customers)
       THEN [table |-> table, status |-> "aborted", loaded |-> 0, raised |-> "IntegrityError"]
       ELSE [table |-> table \cup codes, status |-> "clean", loaded |-> Len(customers), raised |-> NULL]

\* ClientMasterProfileLoader.build_profiles (transform_loaders.py:232-284).
\* The INSERT names a column rfm_score that client_master_profile does not
\* have (db/models.py:166-218): every INSERT raises and is caught, no profile
\* is counted, the final commit ends the failed transaction.  A SELECT that
\* raises is caught by the outer handler.
build_profiles(status) ==
    IF status = "aborted" THEN [created |-> 0, status |-> "aborted"]
    ELSE [created |-> 0, status |-> "clean"]

(***************************************************************************)
(* Transform orchestrator (core/transform/orchestrator.py)                 *)
(***************************************************************************)
\* the order line dicts of a batch (orchestrator.py:110-116)
FetchRawSalesLines(table, batch_id) ==
    LET rows == SelectSeq(table, LAMBDA r : r.batch_id = batch_id)
    IN [i \in 1..Len(rows) |-> rows[i].row_data]

\* what the stages after the customer load have done so far: the order_line
\* table, the session, the order lines loaded, the errors appended, the steps
\* entered
StageState(lines, db, loaded, errors, stages) ==
    [lines |-> lines, db |-> db, loaded |-> loaded, errors |-> errors, stages |-> stages]

\* the end of step 3 (orchestrator.py:122-129) given what load_order_lines did
OrderLinesOutcome(lines_table, o) ==
    IF o.raised = NULL THEN StageState(o.table, o.status, o.loaded, <<>>, <<"order_lines">>)
    ELSE StageState(lines_table, "aborted", 0, <<"Order lines">>, <<"order_lines">>)

\* step 3 of run_full_pipeline (orchestrator.py:105-129) on a working
\* session; `existing` holds the raw tables that were created
OrderLinesStage(lines_table, sales_table, batch_id, existing) ==
    IF "raw_sales_lines" \notin existing
    THEN StageState(lines_table, "aborted", 0, <<"Order lines">>, <<"order_lines">>)
    ELSE OrderLinesOutcome(lines_table,
            load_order_lines(lines_table, load_aliases(ProductResolver(FALSE, {}), "clean").status,
                             FetchRawSalesLines(sales_table, batch_id),
                             load_aliases(ProductResolver(FALSE, {}), "clean").resolver))

\* step 4 (orchestrator.py:131-146); the batch has no raw contact rows
ContactEventsStage(stage, existing) ==
    IF stage.db = "clean" /\ "raw_contacts" \in existing
    THEN StageState(stage.lines, stage.db, stage.loaded, stage.errors,
                    Append(stage.stages, "contact_events"))
    ELSE StageState(stage.lines, "aborted", stage.loaded, Append(stage.errors, "Contact events"),
                    Append(stage.stages, "contact_events"))

\* step 5 (orchestrator.py:148-156)
ProfilesStage(stage, skip_master_profiles) ==
    IF skip_master_profiles THEN stage
    ELSE StageState(stage.lines, build_profiles(stage.db).status, stage.loaded, stage.errors,
                    Append(stage.stages, "master_profiles"))

\* the end of run_full_pipeline (orchestrator.py:158-168)
PipelineOutcome(customers_table, stage, deduped, loaded) ==
    [customers |-> customers_table, lines |-> stage.lines, db |-> stage.db,
     status |-> TransformPipelineStatus(deduped, loaded, stage.loaded, 0, 0, stage.errors),
     success |-> stage.errors = <<>>,
     stages |-> <<"deduplicate", "customers">> \o stage.stages]

\* run_full_pipeline from step 2 on (orchestrator.py:100-174) given what
\* load_customers did
AfterCustomers(customers_table, lines_table, sales_table, db, batch_id, skip_master_profiles, existing, deduped, c) ==
    IF c.raised # NULL
    THEN [customers |-> customers_table, lines |-> lines_table, db |-> c.status,
          status |-> TransformPipelineStatus(deduped, 0, 0, 0, 0, <<"Pipeline">>),
          success |-> FALSE, stages |-> <<"deduplicate", "customers">>]
    ELSE PipelineOutcome(c.table,
            ProfilesStage(ContactEventsStage(OrderLinesStage(lines_table, sales_table, batch_id, existing),
                                             existing),
                          skip_master_profiles),
            deduped, c.loaded)

\* run_full_pipeline from the check of step 1 on (orchestrator.py:92-174)
\* given the deduplicated customers
AfterDedup(customers_table, lines_table, sales_table, db, batch_id, skip_master_profiles, existing, dedup_customers) ==
    IF dedup_customers = <<>>
    THEN [customers |-> customers_table, lines |-> lines_table, db |-> db,
          status |-> NoStatus, success |-> FALSE, stages |-> <<"deduplicate">>]
    ELSE AfterCustomers(customers_table, lines_table, sales_table, db, batch_id,
                        skip_master_profiles, existing, Len(dedup_customers),
                        load_customers(customers_table, db, dedup_customers))

\* TransformOrchestrator.run_full_pipeline (orchestrator.py:61-174): the
\* clean tables and the session afterwards, the status and the flag returned
run_full_pipeline(customers_table, lines_table, raw_table, sales_table, db, batch_id, skip_master_profiles, existing) ==
    AfterDedup(customers_table, lines_table, sales_table, db, batch_id, skip_master_profiles,
               existing, deduplicate_batch(raw_table, db, batch_id).dedup_customers)

\* the ingestion batches the pipeline is run on
TransformBatchIds == {"b1", "b2"}

\* row_data of raw customers: with an email, with a phone only, with neither
RawCustomerData ==
    {[email |-> "a@x", phone |-> NULL], [email |-> "b@x", phone |-> NULL],
     [email |-> NULL, phone |-> "06"], [email |-> NULL, phone |-> NULL]}

\* raw_customers tables of batch b1: row i carries customer_code Ci
RawCustomerCodes == <<"C1", "C2", "C3", "C4">>

RawCustomerTables ==
    {[i \in 1..Len(data) |-> [batch_id |-> "b1",
                              row_data |-> [customer_code |-> RawCustomerCodes[i],
                                            email |-> data[i].email, phone |-> data[i].phone]]] :
        data \in UNION {[1..m -> RawCustomerData] : m \in 0..MaxRawCustomers}}

\* order line dicts: a label the alias table may map, a label it does not
OrderLineData ==
    {[doc_ref |-> "D1", product_label_norm |-> "wine a"],
     [doc_ref |-> "D2", product_label_norm |-> "wine z"]}

OrderLineLists == UNION {[1..n -> OrderLineData] : n \in 0..MaxOrderLines}

\* the resolver handed to load_order_lines: new, or with its cache loaded
\* from the alias table
Resolvers == {ProductResolver(FALSE, {}), ProductResolver(TRUE, product_alias)}

DeduplicateBatch(batch_id) ==
    /\ Len(transformLog) < MaxTransforms
    /\ LET d == deduplicate_batch(raw_customers, db_status, batch_id)
       IN transformLog' = Append(transformLog,
            TransformResult("deduplicate_batch", batch_id, <<>>, d.dedup_customers,
                            d.duplicates_map, 0, NoStatus, FALSE, NULL, <<>>))
    /\ UNCHANGED <<product_alias, customer, clean_order_line, db_status, nonTransformVars>>

LoadOrderLines(order_lines, resolver) ==
    /\ Len(transformLog) < MaxTransforms
    /\ LET o == load_order_lines(clean_order_line, db_status, order_lines, resolver)
       IN /\ clean_order_line' = o.table
          /\ db_status' = o.status
          /\ transformLog' = Append(transformLog,
                TransformResult("load_order_lines", NULL, order_lines, <<>>, {}, o.loaded,
                                NoStatus, FALSE, o.raised, <<>>))
    /\ UNCHANGED <<product_alias, customer, nonTransformVars>>

RunFullPipeline(batch_id, skip_master_profiles, existing) ==
    /\ Len(transformLog) < MaxTransforms
    /\ raw_sales_lines # <<>> => "raw_sales_lines" \in existing
    /\ LET r == run_full_pipeline(customer, clean_order_line, raw_customers, raw_sales_lines,
                                  db_status, batch_id, skip_master_profiles, existing)
       IN /\ customer' = r.customers
          /\ clean_order_line' = r.lines
          /\ db_status' = r.db
          /\ transformLog' = Append(transformLog,
                TransformResult("run_full_pipeline", batch_id, <<>>, <<>>, {}, 0,
                                r.status, r.success, NULL, r.stages))
    /\ UNCHANGED <<product_alias, nonTransformVars>>

\* the raw staging tables as ingestion left them, an alias table, empty clean
\* tables
TransformInit ==
    /\ raw_customers \in RawCustomerTables
    /\ raw_sales_lines \in {<<>>, <<[batch_id |-> "b1",
                                    row_data |-> [doc_ref |-> "D1", product_label_norm |-> "wine a"]]>>}
    /\ product_alias \in {{}, {[label_norm |-> "wine a", product_key |-> "P1"]}}
    /\ customer = {}
    /\ clean_order_line = <<>>
    /\ transformLog = <<>>
    /\ ingestion_batches = {}
    /\ db_status = "clean"
    /\ ingestLog = <<>>
    /\ RecoIdle
    /\ ServicesIdle
    /\ AuditEmpty
    /\ QualityEmpty

TransformNext ==
    \/ \E batch_id \in TransformBatchIds : DeduplicateBatch(batch_id)
    \/ \E order_lines \in OrderLineLists, resolver \in Resolvers : LoadOrderLines(order_lines, resolver)
    \/ \E batch_id \in TransformBatchIds, skip_master_profiles \in BOOLEAN,
          existing \in SUBSET {"raw_sales_lines", "raw_contacts"} :
            RunFullPipeline(batch_id, skip_master_profiles, existing)

SpecTransform == TransformInit /\ [][TransformNext]_vars

(***************************************************************************)
(* Properties of the transform pipeline                                    *)
(***************************************************************************)
LastTransform == transformLog[Len(transformLog)]

\* the step is a call of the given operation of core/transform
TransformStep(op) ==
    /\ Len(transformLog') = Len(transformLog) + 1
    /\ LastTransform'.op = op

\* the groups the rows of a batch fall into: one per email, one per phone of
\* the rows without email, one per row with neither
DuplicateGroups(rows) ==
    LET noEmail == SelectSeq(rows, LAMBDA row : Falsy(row.email))
    IN {RowsWith(rows, "email", e) : e \in Range(GroupKeys(rows, "email"))}
       \cup {RowsWith(noEmail, "phone", ph) : ph \in Range(GroupKeys(noEmail, "phone"))}
       \cup {<<row>> : row \in {r \in Range(noEmail) : Falsy(r.phone)}}

\* C14: deduplicate_batch on a readable batch returns one record per group of
\* rows sharing an email or sharing a phone plus one per row with neither, and
\* every group of several rows comes out as one merged record that carries
\* the group's customer codes in insertion order, duplicate_count equal to the
\* group's size and customer_codes_merged true
C14_DeduplicateCollapsesEmailAndPhoneGroups ==
    [][(TransformStep("deduplicate_batch") /\ db_status = "clean") =>
        LET rows == FetchRawCustomers(raw_customers, LastTransform'.batch_id)
            out == LastTransform'.dedup_customers
        IN /\ Len(out) = Cardinality(DuplicateGroups(rows))
           /\ \A g \in DuplicateGroups(rows) :
                Len(g) > 1 =>
                    \E k \in 1..Len(out) :
                        /\ out[k].customer_code = [i \in 1..Len(g) |-> g[i].customer_code]
                        /\ out[k].duplicate_count = Len(g)
                        /\ out[k].customer_codes_merged]_vars

\* the lines of the list whose label is a key of the alias table, as the
\* order_line rows they map to, in list order
MappedLines(order_lines) ==
    LET F[i \in 0..Len(order_lines)] ==
            IF i = 0 THEN <<>>
            ELSE LET hit == {a \in product_alias : a.label_norm = order_lines[i].product_label_norm}
                 IN IF hit = {} THEN F[i - 1]
                    ELSE Append(F[i - 1], [doc_ref |-> order_lines[i].doc_ref,
                                           product_key |-> (CHOOSE a \in hit : TRUE).product_key])
    IN F[Len(order_lines)]

\* C15: load_order_lines on a working session stores one order_line row, with
\* the mapped product_key, for every line whose label_norm is a key of
\* product_alias and no row for the other lines, and the number of lines left
\* out is what the caller sees missing from the returned count
C15_AliasedLinesAreLoadedOthersCounted ==
    [][(TransformStep("load_order_lines") /\ db_status = "clean") =>
        LET order_lines == LastTransform'.order_lines
        IN /\ LastTransform'.raised = NULL
           /\ clean_order_line' = clean_order_line \o MappedLines(order_lines)
           /\ Len(order_lines) - LastTransform'.loaded
                = Len(order_lines) - Len(MappedLines(order_lines))]_vars

\* C16: run_full_pipeline returns success true exactly when the errors list
\* of the status it returns is empty
C16_SuccessIffNoErrors ==
    \A i \in 1..Len(transformLog) :
        transformLog[i].op = "run_full_pipeline" =>
            (transformLog[i].success <=> transformLog[i].status.errors = <<>>)

(***************************************************************************)
(* Referential integrity of the stored recommendations                     *)
(***************************************************************************)
\* C17: every stored reco_item row refers to a run_id with a stored run
\* record, to a customer_code of the customer table and to a product_key of
\* the product table
C17_RecoItemReferencesExist ==
    \A r \in reco_item :
        /\ r.reco_run_id \in reco_run
        /\ r.customer_code \in customer
        /\ r.product_key \in DOMAIN product

(***************************************************************************)
(* Quality service (core/audit/service.py, QualityService).  The floats of *)
(* the code are exact fractions [n, d] in lowest terms here.               *)
(***************************************************************************)
RECURSIVE GCD(_, _)
GCD(a, b) == IF b = 0 THEN a ELSE GCD(b, a % b)

\* the fraction n / d, d > 0, n >= 0, in lowest terms
Frac(n, d) == [n |-> n \div GCD(n, d), d |-> d \div GCD(n, d)]

FracAdd(x, y) == Frac(x.n * y.d + y.n * x.d, x.d * y.d)

FracScale(k, x) == Frac(k * x.n, x.d)

\* min(x, 1.0)
FracMin1(x) == IF x.n > x.d THEN Frac(1, 1) ELSE x

\* x >= n / d
FracGeq(x, n, d) == x.n * d >= n * x.d

Zero == Frac(0, 1)

\* the rows the query of compute_quality_metrics returns (audit/service.py:180-182)
RecosOfRun(table, run_id) == SelectSeq(table, LAMBDA r : r.run_id = run_id)

RECURSIVE SumScores(_)
SumScores(recos) ==
    IF recos = <<>> THEN 0 ELSE Head(recos).recommendation_score + SumScores(Tail(recos))

\* sorted(scores)[len(scores) // 2] (audit/service.py:200)
MedianScore(recos) ==
    LET scores == [i \in 1..Len(recos) |-> recos[i].recommendation_score]
        sorted == CHOOSE q \in [1..Len(scores) -> Range(scores)] :
                    /\ \A i \in 1..(Len(scores) - 1) : q[i] <= q[i + 1]
                    /\ \A v \in Range(scores) :
                        Cardinality({i \in 1..Len(scores) : q[i] = v})
                            = Cardinality({i \in 1..Len(scores) : scores[i] = v})
    IN sorted[(Len(scores) \div 2) + 1]

\* QualityService._compute_diversity_score (audit/service.py:250-261)
compute_diversity_score(recos) ==
    IF recos = <<>> THEN Zero
    ELSE LET unique_products == Cardinality({recos[i].product_key : i \in 1..Len(recos)})
         IN FracMin1(Frac(10 * unique_products, DiversityTarget * Len(recos)))

\* QualityService._compute_accuracy_score (audit/service.py:263-272)
compute_accuracy_score(recos) ==
    IF recos = <<>> THEN Zero
    ELSE FracMin1(Frac(SumScores(recos), ScoreScale * Len(recos)))

RECURSIVE SumFracs(_)
SumFracs(S) ==
    IF S = {} THEN Zero
    ELSE LET x == CHOOSE y \in S : TRUE IN FracAdd(x.ratio, SumFracs(S \ {x}))

\* QualityService._compute_diversity_ratio (audit/service.py:274-292)
compute_diversity_ratio(recos) ==
    IF recos = <<>> THEN Zero
    ELSE LET codes == {recos[i].customer_code : i \in 1..Len(recos)}
             of(c) == SelectSeq(recos, LAMBDA r : r.customer_code = c)
             ratios == {[customer_code |-> c,
                         ratio |-> Frac(Cardinality({of(c)[i].product_key : i \in 1..Len(of(c))}),
                                        Len(of(c)))] : c \in codes}
             total == SumFracs(ratios)
         IN Frac(total.n, total.d * Cardinality(codes))

\* quality_score of audit/service.py:206-210, times ten
QualityScore(coverage_score, diversity_score, accuracy_score) ==
    FracAdd(FracScale(WeightCoverage, coverage_score),
            FracAdd(FracScale(WeightDiversity, diversity_score),
                    FracScale(WeightAccuracy, accuracy_score)))

\* the if chain of audit/service.py:212-219
QualityLevelOf(quality_score) ==
    IF FracGeq(quality_score, ExcellentScore, 10) THEN "EXCELLENT"
    ELSE IF FracGeq(quality_score, GoodScore, 10) THEN "GOOD"
    ELSE IF FracGeq(quality_score, AcceptableScore, 10) THEN "ACCEPTABLE"
    ELSE "POOR"

\* a QualityMetrics object (audit/models.py:25-37) without its timestamp
QualityMetrics(run_id, total_recommendations, coverage_score, diversity_score, accuracy_score, avg_score, median_score, diversity_ratio, quality_level) ==
    [run_id |-> run_id, total_recommendations |-> total_recommendations,
     coverage_score |-> coverage_score, diversity_score |-> diversity_score,
     accuracy_score |-> accuracy_score, avg_score |-> avg_score, median_score |-> median_score,
     diversity_ratio |-> diversity_ratio, quality_level |-> quality_level]

\* QualityService._empty_metrics (audit/service.py:294-306)
empty_metrics(run_id) == QualityMetrics(run_id, 0, Zero, Zero, Zero, Zero, 0, Zero, "POOR")

\* the call raised: nothing is returned
NoMetrics == QualityMetrics(NULL, 0, Zero, Zero, Zero, Zero, 0, Zero, NULL)

\* the QualityMetricsDB row stored for the metrics (audit/service.py:234-244)
QualityMetricsDB(metrics) ==
    [run_id |-> metrics.run_id, total_recommendations |-> metrics.total_recommendations,
     coverage_score |-> metrics.coverage_score, diversity_score |-> metrics.diversity_score,
     accuracy_score |-> metrics.accuracy_score, avg_score |-> metrics.avg_score,
     median_score |-> metrics.median_score, quality_level |-> metrics.quality_level]

\* QualityService.compute_quality_metrics (audit/service.py:176-248): the
\* quality_metrics table and the session afterwards, the metrics returned, the
\* exception raised if any.  run_id is the primary key of quality_metrics
\* (audit/database.py:53): the flush of a second row for the run_id fails.
compute_quality_metrics(table, stored, status, run_id, total_customers) ==
    LET recos == RecosOfRun(table, run_id)
        unique_customers == Cardinality({recos[i].customer_code : i \in 1..Len(recos)})
        coverage_score == Frac(unique_customers, IF total_customers > 1 THEN total_customers ELSE 1)
        diversity_score == compute_diversity_score(recos)
        accuracy_score == compute_accuracy_score(recos)
        metrics == QualityMetrics(run_id, Len(recos), coverage_score, diversity_score,
                        accuracy_score, Frac(SumScores(recos), Len(recos)), MedianScore(recos),
                        compute_diversity_ratio(recos),
                        QualityLevelOf(QualityScore(coverage_score, diversity_score, accuracy_score)))
    IN IF status = "aborted"
       THEN [stored |-> stored, status |-> status, metrics |-> NoMetrics,
             raised |-> "PendingRollbackError"]
       ELSE IF recos = <<>>
       THEN [stored |-> stored, status |-> status, metrics |-> empty_metrics(run_id), raised |-> NULL]
       ELSE IF \E row \in stored : row.run_id = run_id
       THEN [stored |-> stored, status |-> "aborted", metrics |-> NoMetrics,
             raised |-> "IntegrityError"]
       ELSE [stored |-> stored \cup {QualityMetricsDB(metrics)}, status |-> "clean",
             metrics |-> metrics, raised |-> NULL]

\* the runs, and the RecommendationItem rows of run r1 (tests/test_audit.py:198-206)
RunIds == {"r1", "r2"}

RecoRows ==
    {[run_id |-> "r1", customer_code |-> c, product_key |-> pk, recommendation_score |-> sc] :
        c \in Customers, pk \in {"P1", "P2"}, sc \in {40, 85}}

RecommendationTables == UNION {[1..n -> RecoRows] : n \in 0..MaxRecos}

TotalCustomersArgs == 0..2

ComputeQualityMetrics(run_id, total_customers) ==
    /\ Len(qualityLog) < MaxQualityCalls
    /\ LET q == compute_quality_metrics(recommendation_item, quality_metrics, db_status,
                                        run_id, total_customers)
       IN /\ quality_metrics' = q.stored
          /\ db_status' = q.status
          /\ qualityLog' = Append(qualityLog,
                [run_id |-> run_id, total_customers |-> total_customers,
                 metrics |-> q.metrics, raised |-> q.raised])
    /\ UNCHANGED <<recommendation_item, policies, gatingLog, nonQualityVars>>

\* the recommendations of run r1 are stored, no metrics yet
QualityInit ==
    /\ recommendation_item \in RecommendationTables
    /\ quality_metrics = {}
    /\ qualityLog = <<>>
    /\ policies = DefaultPolicies
    /\ gatingLog = <<>>
    /\ RecoIdle
    /\ ServicesIdle
    /\ AuditEmpty
    /\ IngestEmpty
    /\ TransformEmpty

QualityNext ==
    \/ \E run_id \in RunIds, total_customers \in TotalCustomersArgs :
            ComputeQualityMetrics(run_id, total_customers)
    \/ SessionRollback

SpecQuality == QualityInit /\ [][QualityNext]_vars

(***************************************************************************)
(* Properties of the quality service                                       *)
(***************************************************************************)
\* 0 <= x <= 1
InUnitInterval(x) == x.n >= 0 /\ x.n <= x.d

\* the level the thresholds 0.90 / 0.75 / 0.60 give the weighted score
\* 0.4 * coverage + 0.3 * diversity + 0.3 * accuracy
LevelByThresholds(c, d, a) ==
    LET w == 4 * c.n * d.d * a.d + 3 * d.n * c.d * a.d + 3 * a.n * c.d * d.d
        den == 10 * c.d * d.d * a.d
    IN CASE 100 * w >= 90 * den -> "EXCELLENT"
         [] 100 * w < 90 * den /\ 100 * w >= 75 * den -> "GOOD"
         [] 100 * w < 75 * den /\ 100 * w >= 60 * den -> "ACCEPTABLE"
         [] 100 * w < 60 * den -> "POOR"

\* C18: the metrics compute_quality_metrics returns for a non-negative
\* total_customers have coverage, diversity and accuracy in [0, 1] and the
\* quality level the thresholds give their weighted score
C18_QualityScoresBoundedAndLevelByThresholds ==
    \A i \in 1..Len(qualityLog) :
        (qualityLog[i].raised = NULL /\ qualityLog[i].total_customers >= 0) =>
            LET metrics == qualityLog[i].metrics
            IN /\ InUnitInterval(metrics.coverage_score)
               /\ InUnitInterval(metrics.diversity_score)
               /\ InUnitInterval(metrics.accuracy_score)
               /\ metrics.quality_level
                    = LevelByThresholds(metrics.coverage_score, metrics.diversity_score,
                                        metrics.accuracy_score)

\* C19: a compute_quality_metrics call for a run_id with recommendations
\* whose metrics an earlier call returned (same arguments, same
\* recommendations) raises nothing, returns the same metrics and leaves
\* exactly one stored record of the run
C19_SecondComputeReusesStoredMetrics ==
    [][(Len(qualityLog') = Len(qualityLog) + 1 /\ db_status = "clean") =>
        \A j \in 1..Len(qualityLog) :
            LET last == qualityLog'[Len(qualityLog')]
            IN (/\ qualityLog[j].raised = NULL
                /\ qualityLog[j].metrics.total_recommendations > 0
                /\ qualityLog[j].run_id = last.run_id
                /\ qualityLog[j].total_customers = last.total_customers) =>
                    /\ last.raised = NULL
                    /\ last.metrics = qualityLog[j].metrics
                    /\ Cardinality({row \in quality_metrics' : row.run_id = last.run_id}) = 1]_vars

(***************************************************************************)
(* Gating service (core/audit/service.py, GatingService)                   *)
(***************************************************************************)
\* the issue strings of check_recommendation (audit/service.py:391-397): what
\* is exceeded, the score and the limit formatted into the text
Issue(kind, score, limit) == [kind |-> kind, score |-> score, limit |-> limit]

\* GatingService._check_compliance_rule (audit/service.py:407-414)
check_compliance_rule(reco, rule) == TRUE

\* the mutant: the minimum itself is refused
check_recommendation_strict_minimum(registry, reco, policy_name) ==
    IF policy_name \notin DOMAIN registry \/ ~registry[policy_name].enabled
    THEN [passed |-> TRUE, issues |-> <<>>]
    ELSE LET policy == registry[policy_name]
             issues == (IF reco.recommendation_score <= policy.min_score
                        THEN <<Issue("below minimum", reco.recommendation_score, policy.min_score)>>
                        ELSE <<>>)
                       \o (IF reco.recommendation_score > policy.max_score
                           THEN <<Issue("above maximum", reco.recommendation_score, policy.max_score)>>
                           ELSE <<>>)
         IN [passed |-> issues = <<>>, issues |-> issues]

\* GatingService.check_recommendation (audit/service.py:379-405)
check_recommendation(registry, reco, policy_name) ==
    IF policy_name \notin DOMAIN registry \/ ~registry[policy_name].enabled
    THEN [passed |-> TRUE, issues |-> <<>>]
    ELSE LET policy == registry[policy_name]
             failedRules == SelectSeq(policy.compliance_rules,
                                      LAMBDA rule : ~check_compliance_rule(reco, rule))
             issues == (IF reco.recommendation_score < policy.min_score
                        THEN <<Issue("below minimum", reco.recommendation_score, policy.min_score)>>
                        ELSE <<>>)
                       \o (IF reco.recommendation_score > policy.max_score
                           THEN <<Issue("above maximum", reco.recommendation_score, policy.max_score)>>
                           ELSE <<>>)
                       \o [k \in 1..Len(failedRules) |-> Issue("compliance rule failed", 0, 0)]
         IN [passed |-> issues = <<>>, issues |-> issues]

\* GatingService.check_batch (audit/service.py:416-437)
check_batch(registry, recos, policy_name) ==
    LET passed == SelectSeq(recos, LAMBDA reco : check_recommendation(registry, reco, policy_name).passed)
        failedRecos == SelectSeq(recos, LAMBDA reco : ~check_recommendation(registry, reco, policy_name).passed)
    IN [total |-> Len(recos), passed |-> Len(passed), failed |-> Len(failedRecos),
        pass_rate |-> Frac(Len(passed), IF Len(recos) > 1 THEN Len(recos) ELSE 1),
        failed_recommendations |->
            [k \in 1..Len(failedRecos) |->
                [reco |-> failedRecos[k],
                 issues |-> check_recommendation(registry, failedRecos[k], policy_name).issues]]]

\* nothing returned by a batch check
NoBatch == [total |-> 0, passed |-> 0, failed |-> 0, pass_rate |-> Zero, failed_recommendations |-> <<>>]

\* a GatingService call: arguments and what it returned
GatingResult(op, policy_name, recos, passed, issues, batch) ==
    [op |-> op, policy_name |-> policy_name, recos |-> recos, passed |-> passed,
     issues |-> issues, batch |-> batch]

\* the policies handed to register_policy: the one of tests/test_audit.py,
\* one with a compliance rule, one whose minimum lies above its maximum, and
\* the standard policy switched off
CustomPolicies ==
    {GatingPolicy("custom", 70, DefaultMaxScore, <<>>, TRUE),
     GatingPolicy("custom", 70, DefaultMaxScore, <<"no_duplicate_family">>, TRUE),
     GatingPolicy("custom", 80, 50, <<>>, TRUE),
     GatingPolicy("standard", StandardMinScore, DefaultMaxScore, <<>>, FALSE)}

PolicyNames == {"strict", "standard", "permissive", "custom", "unknown"}

\* the recommendations checked, by their recommendation_score
GatedRecos == {[recommendation_score |-> sc] : sc \in {30, 40, 60, 85, 120}}

GatedBatches == UNION {[1..n -> GatedRecos] : n \in 0..MaxBatch}

\* GatingService.register_policy (audit/service.py:375-377)
RegisterPolicy(policy) ==
    /\ Len(gatingLog) < MaxGatingCalls
    /\ policies' = [name \in DOMAIN policies \cup {policy.name} |->
                        IF name = policy.name THEN policy ELSE policies[name]]
    /\ gatingLog' = Append(gatingLog,
            GatingResult("register_policy", policy.name, <<>>, FALSE, <<>>, NoBatch))
    /\ UNCHANGED <<recommendation_item, quality_metrics, qualityLog, db_status, nonQualityVars>>

CheckRecommendation(reco, policy_name) ==
    /\ Len(gatingLog) < MaxGatingCalls
    /\ LET r == check_recommendation(policies, reco, policy_name)
       IN gatingLog' = Append(gatingLog,
            GatingResult("check_recommendation", policy_name, <<reco>>, r.passed, r.issues, NoBatch))
    /\ UNCHANGED <<recommendation_item, quality_metrics, qualityLog, policies, db_status, nonQualityVars>>

CheckBatch(recos, policy_name) ==
    /\ Len(gatingLog) < MaxGatingCalls
    /\ gatingLog' = Append(gatingLog,
            GatingResult("check_batch", policy_name, recos, FALSE, <<>>,
                         check_batch(policies, recos, policy_name)))
    /\ UNCHANGED <<recommendation_item, quality_metrics, qualityLog, policies, db_status, nonQualityVars>>

\* a new GatingService (audit/service.py:348-352)
GatingInit ==
    /\ QualityEmpty
    /\ RecoIdle
    /\ ServicesIdle
    /\ AuditEmpty
    /\ IngestEmpty
    /\ TransformEmpty

GatingNext ==
    \/ \E policy \in CustomPolicies : RegisterPolicy(policy)
    \/ \E reco \in GatedRecos, policy_name \in PolicyNames : CheckRecommendation(reco, policy_name)
    \/ \E recos \in GatedBatches, policy_name \in PolicyNames : CheckBatch(recos, policy_name)

SpecGating == GatingInit /\ [][GatingNext]_vars

(***************************************************************************)
(* Properties of the gating service                                        *)
(***************************************************************************)
LastGating == gatingLog[Len(gatingLog)]

\* the step is a call of the given operation under a registered, enabled policy
GatingStep(op) ==
    /\ Len(gatingLog') = Len(gatingLog) + 1
    /\ LastGating'.op = op
    /\ LastGating'.policy_name \in DOMAIN policies
    /\ policies[LastGating'.policy_name].enabled

\* what the checks of a step return under the step's policy: a single check
\* passes with no issue exactly when the score lies between the minimum and
\* the maximum, a score below the minimum fails with the one issue naming
\* the score and the minimum, and the pass rate of a batch is the share of
\* its items that pass the single check
GatingAnswers ==
    LET policy == policies[LastGating'.policy_name]
        recos == LastGating'.recos
    IN /\ GatingStep("check_recommendation") =>
            LET score == recos[1].recommendation_score
            IN /\ (LastGating'.passed /\ LastGating'.issues = <<>>)
                    <=> (policy.min_score <= score /\ score <= policy.max_score)
               /\ score < policy.min_score =>
                    /\ ~LastGating'.passed
                    /\ LastGating'.issues = <<Issue("below minimum", score, policy.min_score)>>
       /\ (GatingStep("check_batch") /\ recos # <<>>) =>
            LET passing == {k \in 1..Len(recos) :
                                check_recommendation(policies, recos[k], LastGating'.policy_name).passed}
            IN LastGating'.batch.pass_rate = Frac(Cardinality(passing), Len(recos))

\* C20 as stated: under every registered, enabled policy the checks answer
\* as described
C20_Original == [][GatingAnswers]_vars

\* C20: under a registered, enabled policy whose min_score does not exceed
\* its max_score, check_recommendation passes with no issue exactly when
\* min_score <= score <= max_score and fails with the single issue "Score X
\* below minimum Y" when the score is below min_score, and check_batch
\* reports as pass_rate the share of the items that pass check_recommendation
C20_GatingByScoreBounds ==
    [][(/\ Len(gatingLog') = Len(gatingLog) + 1
        /\ LastGating'.policy_name \in DOMAIN policies
        /\ policies[LastGating'.policy_name].min_score <= policies[LastGating'.policy_name].max_score)
            => GatingAnswers]_vars

\* scores 85 and 40 were checked as a batch under the default standard
\* policy: one passes, one fails with its single issue, pass rate 1/2
C20_Witness ==
    /\ gatingLog # <<>>
    /\ policies = DefaultPolicies
    /\ LastGating.op = "check_batch"
    /\ LastGating.policy_name = "standard"
    /\ LastGating.recos = <<[recommendation_score |-> 85], [recommendation_score |-> 40]>>
    /\ LastGating.batch.pass_rate = Frac(1, 2)
    /\ LastGating.batch.failed_recommendations
        = <<[reco |-> [recommendation_score |-> 40],
             issues |-> <<Issue("below minimum", 40, StandardMinScore)>>]>>

(***************************************************************************)
(* Further properties of the recommendation engine, checked under SpecReco *)
(***************************************************************************)
\* the RecoItems a call has produced: those of the result being saved and
\* those of the result last returned
ProducedItems == Range(cur.result.recommendations) \cup Range(ret.recommendations)

\* C21: on every RecoItem produced by generate_recommendations the affinity,
\* popularity, profit and base scores lie in 0..100 and so does the final
\* score (kept in tenths of a point: 0..1000)
C21_ScoresWithinBounds ==
    \A item \in ProducedItems :
        /\ item.score.affinity_score \in 0..100
        /\ item.score.popularity_score \in 0..100
        /\ item.score.profit_score \in 0..100
        /\ item.score.base_score \in 0..100
        /\ item.score.final_score \in 0..1000

\* a returned slate holds an item of the preferred family (affinity 75) with
\* popularity 0.9 (popularity and profit 90)
C21_Witness ==
    /\ ret.success
    /\ \E item \in Range(ret.recommendations) :
        /\ item.score.affinity_score = NeutralScore + FamilyMatchBonus
        /\ item.score.popularity_score = 90
        /\ item.score.profit_score = 90

\* C28: when generate_recommendations has returned success = true, the store
\* holds exactly one reco_item row per item of the returned slate for the
\* run_id, and no statement of the save failed
C28_SuccessMeansSlateStored ==
    (pc = "idle" /\ ret.success) =>
        /\ \A i \in 1..Len(ret.recommendations) :
            Cardinality({r \in RowsOfRun(ret.run_id) : r.rank = ret.recommendations[i].rank}) = 1
        /\ Cardinality(RowsOfRun(ret.run_id)) = Len(ret.recommendations)
        /\ ~runLog[ret.run_id].failed


\* C29: within the slate of one run for one customer no product_key appears
\* at more than one rank, also when the product is a candidate of several
\* scenarios.
C29_NoProductTwiceInSlate ==
    \A i, j \in 1..Len(ret.recommendations) :
        ret.recommendations[i].product_key = ret.recommendations[j].product_key
            => i = j


\* C24: two executions of match_nurture for the same customer over the same
\* store return the same NURTURE product list: the set of lists the query
\* may return holds one list only.
C24_NurtureSampleReproducible ==
    \A c \in Customers : \A a, b \in match_nurture(c) : a = b


(***************************************************************************)
(* Batch generation (core/recommendation/engine.py:255-292)                *)
(***************************************************************************)
MaxBatchCalls == 1      \* generate_batch_recommendations calls per behaviour
MaxBatchSize == 2       \* longest customer_codes list tried

DefaultBatchLimit == 100000         \* `limit or 100000`
DefaultMaxRecommendations == 3      \* max_recommendations of generate_recommendations

\* the customer_codes argument: None, or a list (the empty list included)
NoCodes == [given |-> FALSE, value |-> <<>>]
Codes(l) == [given |-> TRUE, value |-> l]

\* one whole call generate_recommendations(c) with the default arguments, as
\* run number run_id on the committed rows `items` (engine.py:89-206): what
\* it returns, the rows it leaves committed and its entry of the run log
GenerateOutcomes(c, run_id, items) ==
    IF get_silence_window(c, SilenceDays)
    THEN {[ret |-> Result(run_id, c, FALSE, <<>>, DefaultMaxRecommendations),
           items |-> items, run |-> [size |-> 0, failed |-> FALSE]]}
    ELSE UNION {
        IF all_scores = <<>>
        THEN {[ret |-> Result(run_id, c, FALSE, <<>>, DefaultMaxRecommendations),
               items |-> items, run |-> [size |-> 0, failed |-> FALSE]]}
        ELSE LET ranked == rank_recommendations(all_scores, DefaultMaxRecommendations)
                 diversified == diversify_recommendations(ranked, DefaultMaxRecommendations)
                 result == Result(run_id, c, TRUE, MakeItems(diversified), DefaultMaxRecommendations)
                 rows == {RecoRow(result, result.recommendations[i]) : i \in 1..Len(diversified)}
             IN {[ret |-> result, items |-> db_commit(items, rows).committed,
                  run |-> [size |-> Len(diversified), failed |-> FALSE]],
                 [ret |-> result, items |-> db_rollback(items, rows).committed,
                  run |-> [size |-> Len(diversified), failed |-> TRUE]]}
        : all_scores \in ScoredCandidates(c)}

\* the locals and the store while the loop of engine.py:285-289 runs: the
\* dict `results` as a set of entries, the customers generation was run for
BatchState(results, calls, items, log, last) ==
    [results |-> results, calls |-> calls, items |-> items, log |-> log, last |-> last]

\* results[customer_code] = (reco_result, success): the entry of the key is replaced
DictPut(results, c, r) ==
    {e \in results : e.customer_code # c} \cup {[customer_code |-> c, ret |-> r]}

RECURSIVE BatchLoop(_, _, _)
BatchLoop(codes, i, st) ==
    IF i > Len(codes) THEN {st}
    ELSE UNION {BatchLoop(codes, i + 1,
                    BatchState(DictPut(st.results, codes[i], o.ret), Append(st.calls, codes[i]),
                               o.items, Append(st.log, o.run), o.ret)) :
                o \in GenerateOutcomes(codes[i], Len(st.log) + 1, st.items)}

\* the customer list of engine.py:271-278: the argument when it is truthy,
\* else SELECT DISTINCT customer_code FROM customer LIMIT :limit
BatchCodes(customer_codes, limit) ==
    IF customer_codes.value # <<>>
    THEN {customer_codes.value}
    ELSE {Take(s, IF limit = 0 THEN DefaultBatchLimit ELSE limit) : s \in Perms(customer)}

CodeLists == UNION {[1..n -> Customers] : n \in 0..MaxBatchSize}
BatchArgs == {NoCodes} \cup {Codes(l) : l \in CodeLists}
BatchLimits == {0, 1}       \* limit: None (0) or 1

\* generate_batch_recommendations(customer_codes, limit), the whole call
GenerateBatch(customer_codes, limit) ==
    /\ pc = "idle"
    /\ Len(batchLog) < MaxBatchCalls
    /\ \E codes \in BatchCodes(customer_codes, limit) :
        \E st \in BatchLoop(codes, 1, BatchState({}, <<>>, reco_item, runLog, ret)) :
            /\ reco_item' = st.items
            /\ runLog' = st.log
            /\ nextRun' = Len(st.log)
            /\ ret' = st.last
            /\ batchLog' = Append(batchLog,
                    [customer_codes |-> customer_codes, limit |-> limit,
                     calls |-> st.calls, results |-> st.results])
    /\ UNCHANGED <<product, order_line, contact_event, reco_run, txn, pc, cur, saveIdx>>
    /\ UNCHANGED <<nonServiceVars, connector, connectorPc, connectorLog, triggerLog, validationLog>>

BatchNext ==
    \E customer_codes \in BatchArgs, limit \in BatchLimits : GenerateBatch(customer_codes, limit)

SpecBatch == RecoInit /\ [][BatchNext]_vars

\* C30: generate_batch_recommendations given an explicit list of customer
\* codes (the empty list included) runs generation for exactly the customers
\* of that list, in its order, and returns exactly one entry per distinct code
\* of the list, failed customers included.
C30_BatchRunsExactlyTheListedCustomers ==
    \A n \in 1..Len(batchLog) :
        LET b == batchLog[n]
        IN b.customer_codes.given =>
            /\ b.calls = b.customer_codes.value
            /\ {e.customer_code : e \in b.results} = Range(b.customer_codes.value)
            /\ Cardinality(b.results) = Cardinality(Range(b.customer_codes.value))


(***************************************************************************)
(* Further properties of the transform pipeline, checked under             *)
(* SpecTransform                                                           *)
(***************************************************************************)
\* the run_full_pipeline calls made so far, as indices of transformLog
PipelineRuns == {i \in 1..Len(transformLog) : transformLog[i].op = "run_full_pipeline"}

MaxValidations == 1     \* validate_batch calls per behaviour
MaxBatchRows == 2       \* rows of a validated batch

ValidatorRows ==
    [customer_code : {"C1", ""}, product_label : {"Wine A", ""},
     qty : {Str("2"), Str("0")}, amount_ht : {Str("10"), Str("-1")}]

ValidatorBatches == UNION {[1..n -> ValidatorRows] : n \in 0..MaxBatchRows}

ValidateSalesBatch(rows) ==
    /\ Len(validationLog) < MaxValidations
    /\ LET r == SalesLineValidator_validate_batch(rows)
       IN validationLog' = Append(validationLog,
            [rows |-> rows, valid_rows |-> r.valid_rows, errors |-> r.errors])
    /\ UNCHANGED <<recoVars, nonServiceVars, batchLog, connector, connectorPc, connectorLog, triggerLog>>

ValidateInit ==
    /\ RecoIdle
    /\ ServicesIdle
    /\ AuditEmpty
    /\ IngestEmpty
    /\ TransformEmpty
    /\ QualityEmpty

ValidateNext == \E rows \in ValidatorBatches : ValidateSalesBatch(rows)

SpecValidate == ValidateInit /\ [][ValidateNext]_vars

\* the rules of SalesLineSchema on a row of string cells
RowMeetsSalesLineRules(row) ==
    /\ row.customer_code # ""
    /\ row.product_label # ""
    /\ ParseFloat(row.qty.value) > 0
    /\ ParseFloat(row.amount_ht.value) >= 0

\* C22: validate_batch returns as valid, with no error, every sales-line row
\* that has a customer_code, a non-empty product_label, qty > 0 and
\* amount_ht >= 0, and the valid rows and the errors together number the
\* input rows.
C22_RowsMeetingTheRulesAreValid ==
    \A n \in 1..Len(validationLog) :
        LET v == validationLog[n]
        IN /\ \A i \in 1..Len(v.rows) :
                RowMeetsSalesLineRules(v.rows[i]) =>
                    /\ \E k \in 1..Len(v.valid_rows) :
                            v.valid_rows[k].customer_code = v.rows[i].customer_code
                    /\ \A k \in 1..Len(v.errors) : v.errors[k].row_number # i + 1
           /\ Len(v.valid_rows) + Len(v.errors) = Len(v.rows)


(***************************************************************************)
(* Source connector (connectors/base_connector.py,                         *)
(* connectors/isavigne_connector.py): the status of one iSaVigneConnector  *)
(* across test_connection and sync calls made one after the other.         *)
(***************************************************************************)
MaxConnectorCalls == 4      \* test_connection and sync calls per behaviour

ConnectorStatus == {"healthy", "error", "syncing", "idle", "configuring"}

\* the quantite cell of the exported sales file: float() takes the first
\* and raises ValueError on the second (isavigne_connector.py:370)
CsvQuantities == {"12", "douze"}

\* what the other subsystems and the other services keep during a connector call
nonConnectorVars == <<recoVars, nonServiceVars, batchLog, triggerLog, validationLog>>

\* iSaVigneConnector.test_connection (isavigne_connector.py:72-103);
\* path_ok: the export path exists and is a directory
TestConnection(path_ok) ==
    /\ connectorPc = "idle"
    /\ Len(connectorLog) < MaxConnectorCalls
    /\ IF path_ok
       THEN /\ connector' = [connector EXCEPT !.status = "healthy"]
            /\ connectorLog' = Append(connectorLog,
                    [op |-> "test_connection", success |-> TRUE, raised |-> NULL])
       ELSE /\ connector' = [connector EXCEPT !.status = "error", !.last_error = TRUE]
            /\ connectorLog' = Append(connectorLog,
                    [op |-> "test_connection", success |-> FALSE, raised |-> "ConnectionError"])
    /\ UNCHANGED <<connectorPc, nonConnectorVars>>

\* BaseConnector.sync up to the try block (base_connector.py:145-146)
SyncBegin ==
    /\ connectorPc = "idle"
    /\ Len(connectorLog) < MaxConnectorCalls
    /\ connector' = [connector EXCEPT !.status = "syncing"]
    /\ connectorPc' = "syncing"
    /\ UNCHANGED <<connectorLog, nonConnectorVars>>

\* the rest of BaseConnector.sync (base_connector.py:148-191): extract,
\* transform and load end well, or transform raises on the cell
SyncEnd(quantite) ==
    /\ connectorPc = "syncing"
    /\ IF quantite = "12"
       THEN /\ connector' = [connector EXCEPT !.status = "healthy",
                                              !.last_sync = Len(connectorLog) + 1]
            /\ connectorLog' = Append(connectorLog,
                    [op |-> "sync", success |-> TRUE, raised |-> NULL])
       ELSE /\ connector' = [connector EXCEPT !.status = "error", !.last_error = TRUE]
            /\ connectorLog' = Append(connectorLog,
                    [op |-> "sync", success |-> FALSE, raised |-> NULL])
    /\ connectorPc' = "idle"
    /\ UNCHANGED nonConnectorVars

ConnectorInit ==
    /\ RecoIdle
    /\ ServicesIdle
    /\ AuditEmpty
    /\ IngestEmpty
    /\ TransformEmpty
    /\ QualityEmpty

ConnectorNext ==
    \/ \E path_ok \in BOOLEAN : TestConnection(path_ok)
    \/ SyncBegin
    \/ \E quantite \in CsvQuantities : SyncEnd(quantite)

SpecConnector == ConnectorInit /\ [][ConnectorNext]_vars

\* the moves of the status the life cycle allows
AllowedStatusMoves ==
    {<<"configuring", "healthy">>, <<"healthy", "syncing">>,
     <<"syncing", "healthy">>, <<"syncing", "error">>}

\* a sync call returns in this step
SyncReturns ==
    /\ Len(connectorLog') = Len(connectorLog) + 1
    /\ connectorLog'[Len(connectorLog')].op = "sync"

\* C23: across any sequence of test_connection and sync calls the status of
\* a connector changes only along CONFIGURING -> HEALTHY, HEALTHY -> SYNCING,
\* SYNCING -> HEALTHY and SYNCING -> ERROR, and when sync returns the status
\* is HEALTHY or ERROR.
C23_StatusFollowsLifeCycle ==
    [][/\ connector'.status # connector.status
            => <<connector.status, connector'.status>> \in AllowedStatusMoves
       /\ SyncReturns => connector'.status \in {"healthy", "error"}]_vars


(***************************************************************************)
(* Outcomes service (core/outcomes/service.py): check_retraining_triggers. *)
(* Rates are kept in hundredths (0.45 is 45, a satisfaction of 3.4 is 340) *)
(* and the factors 0.9 and 0.85 in hundredths as well, so that the         *)
(* comparisons are exact.                                                  *)
(***************************************************************************)
MaxTriggerCalls == 2        \* check_retraining_triggers calls per behaviour

PerformanceDropFactor == 90     \* purchase_rate * 0.9
SatisfactionDropFactor == 85    \* average_satisfaction * 0.85
MaxReturnRate == 15             \* return_rate > 0.15
MinAcceptanceRate == 50         \* acceptance_rate < 0.5

\* the fields of OutcomeMetrics (outcomes/models.py:83-99) the check reads
OutcomeMetrics(purchase_rate, average_satisfaction, return_rate, acceptance_rate) ==
    [purchase_rate |-> purchase_rate, average_satisfaction |-> average_satisfaction,
     return_rate |-> return_rate, acceptance_rate |-> acceptance_rate]

\* previous_metrics: None, or an OutcomeMetrics object (always truthy)
NoPrevious == [given |-> FALSE, value |-> OutcomeMetrics(0, 0, 0, 0)]
Previous(metrics) == [given |-> TRUE, value |-> metrics]

\* the mutant: the return rate checked with >=
check_retraining_triggers_inclusive(current_metrics, previous_metrics) ==
    (IF previous_metrics.given
     THEN (IF current_metrics.purchase_rate * 100
                < previous_metrics.value.purchase_rate * PerformanceDropFactor
           THEN <<"PERFORMANCE_DROP">> ELSE <<>>)
          \o (IF current_metrics.average_satisfaction * 100
                    < previous_metrics.value.average_satisfaction * SatisfactionDropFactor
              THEN <<"SATISFACTION_DROP">> ELSE <<>>)
     ELSE <<>>)
    \o (IF current_metrics.return_rate >= MaxReturnRate THEN <<"HIGH_RETURN_RATE">> ELSE <<>>)
    \o (IF current_metrics.acceptance_rate < MinAcceptanceRate
        THEN <<"LOW_ACCEPTANCE_RATE">> ELSE <<>>)

\* OutcomesService.check_retraining_triggers (service.py:130-200): the
\* trigger_type of the triggers returned, in list order
check_retraining_triggers(current_metrics, previous_metrics) ==
    (IF previous_metrics.given
     THEN (IF current_metrics.purchase_rate * 100
                < previous_metrics.value.purchase_rate * PerformanceDropFactor
           THEN <<"PERFORMANCE_DROP">> ELSE <<>>)
          \o (IF current_metrics.average_satisfaction * 100
                    < previous_metrics.value.average_satisfaction * SatisfactionDropFactor
              THEN <<"SATISFACTION_DROP">> ELSE <<>>)
     ELSE <<>>)
    \o (IF current_metrics.return_rate > MaxReturnRate THEN <<"HIGH_RETURN_RATE">> ELSE <<>>)
    \o (IF current_metrics.acceptance_rate < MinAcceptanceRate
        THEN <<"LOW_ACCEPTANCE_RATE">> ELSE <<>>)

\* metrics on both sides of every threshold
CurrentMetrics ==
    {OutcomeMetrics(p, s, r, a) : p \in {44, 45, 50}, s \in {339, 340, 400},
                                  r \in {15, 16}, a \in {49, 50}}

PreviousMetrics ==
    {NoPrevious, Previous(OutcomeMetrics(50, 400, 15, 50)), Previous(OutcomeMetrics(0, 0, 0, 0))}

CheckRetrainingTriggers(current_metrics, previous_metrics) ==
    /\ Len(triggerLog) < MaxTriggerCalls
    /\ triggerLog' = Append(triggerLog,
            [current_metrics |-> current_metrics, previous_metrics |-> previous_metrics,
             triggers |-> check_retraining_triggers(current_metrics, previous_metrics)])
    /\ UNCHANGED <<recoVars, nonServiceVars, batchLog, connector, connectorPc, connectorLog, validationLog>>

OutcomesInit ==
    /\ RecoIdle
    /\ ServicesIdle
    /\ AuditEmpty
    /\ IngestEmpty
    /\ TransformEmpty
    /\ QualityEmpty

OutcomesNext ==
    \E current_metrics \in CurrentMetrics, previous_metrics \in PreviousMetrics :
        CheckRetrainingTriggers(current_metrics, previous_metrics)

SpecOutcomes == OutcomesInit /\ [][OutcomesNext]_vars

\* the trigger types the thresholds call for
ExpectedTriggerTypes(current, previous) ==
    {t \in {"PERFORMANCE_DROP", "SATISFACTION_DROP", "HIGH_RETURN_RATE", "LOW_ACCEPTANCE_RATE"} :
        CASE t = "PERFORMANCE_DROP" ->
                previous.given /\ current.purchase_rate * 10 < 9 * previous.value.purchase_rate
          [] t = "SATISFACTION_DROP" ->
                previous.given
                /\ current.average_satisfaction * 20 < 17 * previous.value.average_satisfaction
          [] t = "HIGH_RETURN_RATE" -> current.return_rate * 20 > 3 * 100
          [] OTHER -> current.acceptance_rate * 2 < 100}

\* C25: the trigger types check_retraining_triggers returns depend on the
\* current and previous metrics only: calls with equal metrics return the same
\* set, and the set holds PERFORMANCE_DROP iff previous is given and current
\* purchase_rate < 0.9 previous, SATISFACTION_DROP iff previous is given and
\* current average_satisfaction < 0.85 previous, HIGH_RETURN_RATE iff
\* return_rate > 0.15 and LOW_ACCEPTANCE_RATE iff acceptance_rate < 0.5.
C25_TriggersAreAFunctionOfTheMetrics ==
    /\ \A n \in 1..Len(triggerLog) :
        /\ Range(triggerLog[n].triggers)
            = ExpectedTriggerTypes(triggerLog[n].current_metrics, triggerLog[n].previous_metrics)
        /\ Len(triggerLog[n].triggers) = Cardinality(Range(triggerLog[n].triggers))
    /\ \A n, k \in 1..Len(triggerLog) :
        (/\ triggerLog[n].current_metrics = triggerLog[k].current_metrics
         /\ triggerLog[n].previous_metrics = triggerLog[k].previous_metrics)
            => triggerLog[n].triggers = triggerLog[k].triggers

\* two calls have been made: the first met the return rate 0.15 exactly and
\* returned no trigger, the second had previous metrics and returned all four
C25_Witness ==
    /\ Len(triggerLog) = 2
    /\ triggerLog[1].current_metrics.return_rate = MaxReturnRate
    /\ triggerLog[1].triggers = <<>>
    /\ triggerLog[2].previous_metrics.given
    /\ Len(triggerLog[2].triggers) = 4

====
